---- MODULE Spec2Model ----
(***************************************************************************)
(* A model of one agent step of inspirepan/step:                           *)
(*   - the chat-completion stream adapter (Stream.Next, processChunk,      *)
(*     finalize) reading a wire of chunks,                                 *)
(*   - the step orchestrator (runStep, handleProviderUpdate),              *)
(*   - the tool executor (executeTools) with its parallel workers,         *)
(*   - the cancellation of the step context.                               *)
(* Go strings that are concatenated (text, arguments, reasoning) are       *)
(* sequences of characters; names, ids and tags are TLA+ strings, with ""  *)
(* the empty Go string.                                                    *)
(***************************************************************************)
EXTENDS Integers, Sequences, FiniteSets, TLC

VARIABLES
    wire,          \* the chunks the SSE transport will deliver, in order
    wireErr,       \* TRUE when the transport fails after the last chunk (stream.Err() # nil)
    ctxCancelled,  \* ctx.Err() # nil
    s,             \* the adapter's Stream struct
    pc,            \* position of the goroutine that called Step
    rs,            \* runStep's locals and return values
    ex,            \* executeTools' locals (owned by the Step goroutine)
    completions,   \* the buffered completions channel
    toolsCancelled,\* cancelTools() was called
    workers,       \* per call index: the state of its execOne goroutine
    executed,      \* history: the calls that were passed to their tool's Execute
    rets,          \* history: <<call, what its tool's Execute returned>>
    cancelAt,      \* history: where the step was when ctx was cancelled
    trace,         \* every callback invocation and the return of Step, in order
    rt,            \* a reasoning handler on its own: what it was given and returned
    callers,       \* per goroutine sharing one Stream: its position in Next
    ss             \* the stepStream of StepStreamed, its run goroutine and its consumer

vars == <<wire, wireErr, ctxCancelled, s, pc, rs, ex, completions,
          toolsCancelled, workers, executed, rets, cancelAt, trace, rt, callers, ss>>

----------------------------------------------------------------------------
(* Bounds of the model *)

MaxCalls == 2       \* tool calls of an assistant message handed to executeTools
MaxWireCalls == 1   \* tool calls on the wire of a whole step
MaxWorkers == 1     \* parallel-flagged calls among them (goroutines of executeTools)
MaxChunks == 3      \* chunks on the wire of the adapter run alone
MaxNextAfterEnd == 2 \* calls of Next after the one that ended the stream
MaxScript == 2      \* updates of the scripted provider before its last one
MaxCallers == 2     \* goroutines calling Next on one Stream
MaxCallerNexts == 5 \* calls of Next they make together
MaxEntries == 3     \* reasoning_details entries fed to one handler
MaxFlushes == 2     \* calls of FlushThinking on it

----------------------------------------------------------------------------
(* Data *)

Nil == [type |-> "nil"]

EmptyStr == << >>

\* streamStage
stageWaiting == "waiting"
stageThinking == "thinking"
stageText == "text"
stageTool == "tool"

\* StopReason
StopStop == "stop"
StopLength == "length"
StopToolUse == "tool_use"

TextPart(text) == [type |-> "text", Text |-> text]

ThinkingPart(id, thinking, signature, format, modelName) ==
    [type |-> "thinking", ID |-> id, Thinking |-> thinking, Signature |-> signature,
     Format |-> format, ModelName |-> modelName]

ToolCallPart(callID, name, args) ==
    [type |-> "tool_call", CallID |-> callID, Name |-> name, ArgsJSON |-> args]

ThinkingDelta(text) == [kind |-> "thinking", Delta |-> text]

TextDelta(text) == [kind |-> "text", Delta |-> text]

ToolCallDelta(callID, name, args) ==
    [kind |-> "tool_call", CallID |-> callID, Name |-> name, ArgsDelta |-> args]

ToolExecDelta(callID, name, stage) ==
    [kind |-> "tool_exec", CallID |-> callID, Name |-> name, Stage |-> stage]

StepStatusDelta(cancelled) == [kind |-> "step", Cancelled |-> cancelled]

ProviderDeltaUpdate(delta) == [type |-> "delta", Delta |-> delta]

ProviderMessageUpdate(msg) == [type |-> "message", Message |-> msg]

\* Usage is the TotalTokens of the message's Usage, 0 for a nil Usage; Cached
\* its CachedReadTokens
AssistantMessage(parts, usage, stopReason) ==
    [role |-> "assistant", Parts |-> parts, Usage |-> usage, Cached |-> 0,
     StopReason |-> stopReason]

\* A wire chunk (openai.ChatCompletionChunk), reduced to what processChunk reads.
\* Its delta has no reasoning_details unless WithDetails puts them there.
Chunk(usage, choices, finish, reasoning, content, toolCalls) ==
    [usage |-> usage, choices |-> choices, finish |-> finish,
     reasoning |-> reasoning, reasoning_details |-> << >>, cached |-> 0,
     content |-> content, toolCalls |-> toolCalls]

WithDetails(chunk, details) == [chunk EXCEPT !.reasoning_details = details]

\* the chunk with Usage.PromptTokensDetails.CachedTokens = n
WithCached(chunk, n) == [chunk EXCEPT !.cached = n]

ToolCallFragment(index, id, name, args) ==
    [index |-> index, id |-> id, name |-> name, args |-> args]

----------------------------------------------------------------------------
(* Values of Go's `any`, as far as the type assertions of the handlers tell *)
(* them apart; Nil is the value of a key the map does not have             *)

GoString(str) == [type |-> "string", v |-> str]

GoAnySlice(items) == [type |-> "[]any", v |-> items]

GoMapSlice(items) == [type |-> "[]map[string]any", v |-> items]

\* json.Marshal followed by json.Unmarshal into an `any`: every array comes
\* back as []any
jsonRoundTrip(value) ==
    IF value.type = "[]map[string]any" THEN GoAnySlice(value.v) ELSE value

\* the map a handler is given: the keys the handlers read, Nil when absent
DeltaMap(reasoning, details) == [reasoning |-> reasoning, reasoning_details |-> details]

\* deltaToMap: the delta of the chunk through JSON
deltaToMap(chunk) ==
    DeltaMap(IF chunk.reasoning = EmptyStr THEN Nil
             ELSE jsonRoundTrip(GoString(chunk.reasoning)),
             IF chunk.reasoning_details = << >> THEN Nil
             ELSE jsonRoundTrip(GoAnySlice(chunk.reasoning_details)))

RECURSIVE Concat(_)
Concat(seq) == IF seq = << >> THEN EmptyStr ELSE Head(seq) \o Concat(Tail(seq))

----------------------------------------------------------------------------
(* The reasoning handlers: NoOpReasoningHandler, DefaultReasoningHandler   *)
(* and the ReasoningHandler of package openrouter                          *)

ModelName == "m1"

ReasoningField == "reasoning"

FormatClaude == "anthropic-claude-v1"
FormatOpenAI == "openai-responses-v1"

NoOpReasoningHandler == [dialect |-> "noop"]

NewDefaultReasoningHandler(modelName) ==
    [dialect |-> "default", modelName |-> modelName, accumulatedThinking |-> << >>]

NewReasoningHandler(modelName) ==
    [dialect |-> "openrouter", modelName |-> modelName, parts |-> << >>,
     currentPart |-> Nil]

\* NoOpReasoningHandler.ConvertThinkingToExtra
NoOpConvertThinkingToExtra(parts, targetModel) ==
    [key |-> "", value |-> Nil, degradedText |-> EmptyStr]

\* DefaultReasoningHandler.ConvertThinkingToExtra: the loop over parts
RECURSIVE DefaultConvertLoop(_, _)
DefaultConvertLoop(parts, targetModel) ==
    IF parts = << >> THEN [reasoning |-> EmptyStr, degradedText |-> EmptyStr]
    ELSE LET p == Head(parts)
             rest == DefaultConvertLoop(Tail(parts), targetModel)
         IN IF p.Thinking = EmptyStr THEN rest
            ELSE IF p.ModelName # "" /\ p.ModelName # targetModel
            THEN [rest EXCEPT !.degradedText = p.Thinking \o @]
            ELSE [rest EXCEPT !.reasoning = p.Thinking \o @]

\* DefaultReasoningHandler.ConvertThinkingToExtra
DefaultConvertThinkingToExtra(parts, targetModel) ==
    LET r == DefaultConvertLoop(parts, targetModel)
    IN IF r.reasoning = EmptyStr
       THEN [key |-> "", value |-> Nil, degradedText |-> r.degradedText]
       ELSE [key |-> ReasoningField, value |-> GoString(r.reasoning),
             degradedText |-> r.degradedText]

\* One reasoning_detail object. A key the Go map does not have is "" (or
\* EmptyStr for text and summary): the decoder reads a missing key and an
\* empty string alike.
Detail(type, index, format, id, text, summary, data, signature) ==
    [type |-> type, index |-> index, format |-> format, id |-> id, text |-> text,
     summary |-> summary, data |-> data, signature |-> signature]

\* the switch on part.Format of ConvertThinkingToExtra (lines 49-123): the
\* details appended for the part at index i
detailsOfPart(part, i) ==
    CASE part.Format = FormatClaude ->
            IF part.Thinking # EmptyStr \/ part.Signature # ""
            THEN << Detail("reasoning.text", i, part.Format, part.ID, part.Thinking,
                           EmptyStr, "", part.Signature) >>
            ELSE << >>
      [] part.Format = FormatOpenAI ->
            (IF part.Thinking # EmptyStr
             THEN << Detail("reasoning.summary", i, part.Format, part.ID, EmptyStr,
                            part.Thinking, "", "") >>
             ELSE << >>)
            \o (IF part.Signature # ""
                THEN << Detail("reasoning.encrypted", i, part.Format, "", EmptyStr,
                               EmptyStr, part.Signature, "") >>
                ELSE << >>)
      [] OTHER ->
            (IF part.Thinking # EmptyStr
             THEN << Detail("reasoning.text", i, part.Format, part.ID, part.Thinking,
                            EmptyStr, "", "") >>
             ELSE << >>)
            \o (IF part.Signature # ""
                THEN << Detail("reasoning.encrypted", i, part.Format, part.ID, EmptyStr,
                               EmptyStr, part.Signature, "") >>
                ELSE << >>)

\* "<thinking>\n" + part.Thinking + "\n</thinking>\n"
degradeToText(thinking) == << "<thinking>", "\n" >> \o thinking \o << "\n", "</thinking>", "\n" >>

\* the loop of the openrouter ConvertThinkingToExtra from the part at index i on
RECURSIVE OpenRouterConvertLoop(_, _, _)
OpenRouterConvertLoop(parts, targetModel, i) ==
    IF i >= Len(parts) THEN [details |-> << >>, degradedText |-> EmptyStr]
    ELSE LET part == parts[i + 1]
             rest == OpenRouterConvertLoop(parts, targetModel, i + 1)
         IN IF part.ModelName # "" /\ part.ModelName # targetModel
            THEN IF part.Thinking # EmptyStr
                 THEN [rest EXCEPT !.degradedText = degradeToText(part.Thinking) \o @]
                 ELSE rest
            ELSE [rest EXCEPT !.details = detailsOfPart(part, i) \o @]

\* openrouter.ReasoningHandler.ConvertThinkingToExtra
OpenRouterConvertThinkingToExtra(parts, targetModel) ==
    LET r == OpenRouterConvertLoop(parts, targetModel, 0)
    IN IF Len(r.details) = 0
       THEN [key |-> "", value |-> Nil, degradedText |-> r.degradedText]
       ELSE [key |-> "reasoning_details", value |-> GoMapSlice(r.details),
             degradedText |-> r.degradedText]

\* ReasoningHandler.ConvertThinkingToExtra, dispatched on the handler's type
ConvertThinkingToExtra(h, parts, targetModel) ==
    CASE h.dialect = "default" -> DefaultConvertThinkingToExtra(parts, targetModel)
      [] h.dialect = "openrouter" -> OpenRouterConvertThinkingToExtra(parts, targetModel)
      [] OTHER -> NoOpConvertThinkingToExtra(parts, targetModel)

\* NoOpReasoningHandler.ExtractThinking
NoOpExtractThinking(h, delta) == [h |-> h, text |-> EmptyStr, isThinking |-> FALSE]

\* DefaultReasoningHandler.ExtractThinking
DefaultExtractThinking(h, delta) ==
    LET reasoning == delta.reasoning
    IN IF reasoning.type = "string" /\ reasoning.v # EmptyStr
       THEN [h |-> [h EXCEPT !.accumulatedThinking = Append(@, reasoning.v)],
             text |-> reasoning.v, isThinking |-> TRUE]
       ELSE [h |-> h, text |-> EmptyStr, isThinking |-> FALSE]

\* h.currentPart, initialized if needed (lines 158-162, 186-190, 206-210)
currentPartOf(h) ==
    IF h.currentPart = Nil
    THEN ThinkingPart("", EmptyStr, "", "", h.modelName)
    ELSE h.currentPart

\* one iteration of the loop of the openrouter ExtractThinking: acc is the
\* handler, allText and isThinking after the details before this one
extractDetail(acc, detail) ==
    LET h == acc.h
        cur0 == currentPartOf(h)
        cur1 == [cur0 EXCEPT !.ID = IF detail.id # "" THEN detail.id ELSE @]
        cur2 == [cur1 EXCEPT !.Format = IF detail.format # "" THEN detail.format ELSE @]
    IN CASE detail.type = "reasoning.text" ->
              LET cur3 == [cur2 EXCEPT !.Thinking = @ \o detail.text]
              IN IF detail.signature # ""
                 THEN [h |-> [h EXCEPT !.parts =
                                  Append(@, [cur3 EXCEPT !.Signature = detail.signature]),
                                       !.currentPart = Nil],
                       allText |-> acc.allText \o detail.text, isThinking |-> TRUE]
                 ELSE [h |-> [h EXCEPT !.currentPart = cur3],
                       allText |-> acc.allText \o detail.text, isThinking |-> TRUE]
         [] detail.type = "reasoning.summary" ->
              [h |-> [h EXCEPT !.currentPart = [cur2 EXCEPT !.Thinking = @ \o detail.summary]],
               allText |-> acc.allText \o detail.summary, isThinking |-> TRUE]
         [] detail.type = "reasoning.encrypted" ->
              LET cur3 == [cur2 EXCEPT !.Signature =
                                IF detail.data # "" THEN detail.data ELSE @]
              IN [h |-> [h EXCEPT !.parts = Append(@, cur3), !.currentPart = Nil],
                  allText |-> acc.allText, isThinking |-> TRUE]
         [] OTHER -> [acc EXCEPT !.isThinking = TRUE]

RECURSIVE extractDetails(_, _)
extractDetails(acc, details) ==
    IF details = << >> THEN acc
    ELSE extractDetails(extractDetail(acc, Head(details)), Tail(details))

\* what ExtractThinking returns after its loop (lines 230-233)
extracted(r) == [h |-> r.h, text |-> r.allText, isThinking |-> r.isThinking]

\* openrouter.ReasoningHandler.ExtractThinking
OpenRouterExtractThinking(h, delta) ==
    IF delta.reasoning_details.type # "[]any"
    THEN [h |-> h, text |-> EmptyStr, isThinking |-> FALSE]
    ELSE IF Len(delta.reasoning_details.v) = 0
    THEN [h |-> h, text |-> EmptyStr, isThinking |-> FALSE]
    ELSE extracted(extractDetails([h |-> h, allText |-> EmptyStr, isThinking |-> FALSE],
                                  delta.reasoning_details.v))

\* ReasoningHandler.ExtractThinking, dispatched on the handler's type
ExtractThinking(h, delta) ==
    CASE h.dialect = "default" -> DefaultExtractThinking(h, delta)
      [] h.dialect = "openrouter" -> OpenRouterExtractThinking(h, delta)
      [] OTHER -> NoOpExtractThinking(h, delta)

\* NoOpReasoningHandler.FlushThinking
NoOpFlushThinking(h) == [h |-> h, parts |-> << >>]

\* DefaultReasoningHandler.FlushThinking
DefaultFlushThinking(h) ==
    IF Len(h.accumulatedThinking) = 0
    THEN [h |-> h, parts |-> << >>]
    ELSE [h |-> [h EXCEPT !.accumulatedThinking = << >>],
          parts |-> << ThinkingPart("", Concat(h.accumulatedThinking), "", "",
                                    h.modelName) >>]

\* FlushThinking that appends the open part whatever its text
OpenRouterFlushThinkingAnyOpen(h) ==
    LET h1 == IF h.currentPart # Nil
              THEN [h EXCEPT !.parts = Append(@, h.currentPart), !.currentPart = Nil]
              ELSE h
    IN IF Len(h1.parts) = 0
       THEN [h |-> h1, parts |-> << >>]
       ELSE [h |-> [h1 EXCEPT !.parts = << >>], parts |-> h1.parts]

\* openrouter.ReasoningHandler.FlushThinking
OpenRouterFlushThinking(h) ==
    LET h1 == IF h.currentPart # Nil /\ h.currentPart.Thinking # EmptyStr
              THEN [h EXCEPT !.parts = Append(@, h.currentPart), !.currentPart = Nil]
              ELSE h
    IN IF Len(h1.parts) = 0
       THEN [h |-> h1, parts |-> << >>]
       ELSE [h |-> [h1 EXCEPT !.parts = << >>], parts |-> h1.parts]

\* ReasoningHandler.FlushThinking, dispatched on the handler's type
FlushThinking(h) ==
    CASE h.dialect = "default" -> DefaultFlushThinking(h)
      [] h.dialect = "openrouter" -> OpenRouterFlushThinking(h)
      [] OTHER -> NoOpFlushThinking(h)

----------------------------------------------------------------------------
(* The adapter: Stream *)

\* debug is "nil" without a debug sink, else the state of the sink's file
\* ("open", "closed"); stream is the state of the wire stream's response body.
\* What the sink has logged is not part of the model. mu is TRUE while the
\* mutex of the Stream is locked.
NewStream(handler, debug) ==
    [pos |-> 0, done |-> FALSE, err |-> "", stage |-> stageWaiting,
     pending |-> << >>, textContent |-> << >>, toolCalls |-> << >>,
     stopReason |-> "", usage |-> 0, cached |-> 0, parts |-> << >>,
     rh |-> IF handler = Nil THEN NoOpReasoningHandler ELSE handler,
     debug |-> debug, stream |-> "open", mu |-> FALSE]

\* the Stream of the provider of a step
StepStream == NewStream(NewDefaultReasoningHandler(ModelName), "nil")

enqueue(st, up) == [st EXCEPT !.pending = Append(@, up)]

\* flushText keeping only the last fragment of the text
flushTextLast(st) ==
    IF Len(st.textContent) = 0
    THEN st
    ELSE [st EXCEPT !.parts = Append(@, TextPart(st.textContent[Len(st.textContent)])),
                    !.textContent = << >>]

flushText(st) ==
    IF Len(st.textContent) = 0
    THEN st
    ELSE [st EXCEPT !.parts = Append(@, TextPart(Concat(st.textContent))),
                    !.textContent = << >>]

\* s.parts = append(s.parts, parts...) with the handler as FlushThinking left it
appendFlushed(st, f) == [st EXCEPT !.parts = @ \o f.parts, !.rh = f.h]

emitStageEnd(st) ==
    CASE st.stage = stageThinking -> appendFlushed(st, FlushThinking(st.rh))
      [] st.stage = stageText -> flushText(st)
      [] OTHER -> st

enterStage(st, stage) ==
    IF st.stage # stage THEN [emitStageEnd(st) EXCEPT !.stage = stage] ELSE st

mapFinishReason(reason) ==
    CASE reason = "stop" -> StopStop
      [] reason = "length" -> StopLength
      [] reason = "tool_calls" -> StopToolUse
      [] OTHER -> StopStop

emptyAccumulator == [id |-> "", name |-> "", argsStr |-> EmptyStr]

\* processToolCall with the argument bytes put in front of the accumulated ones
processToolCallPrepend(st, tc) ==
    LET st1 == enterStage(st, stageTool)
        old == IF tc.index \in DOMAIN st1.toolCalls
               THEN st1.toolCalls[tc.index] ELSE emptyAccumulator
        acc == [id |-> IF tc.id # "" THEN tc.id ELSE old.id,
                name |-> IF tc.name # "" THEN tc.name ELSE old.name,
                argsStr |-> tc.args \o old.argsStr]
        st2 == [st1 EXCEPT !.toolCalls =
                    [i \in (DOMAIN @) \cup {tc.index} |->
                        IF i = tc.index THEN acc ELSE @[i]]]
    IN IF tc.args # EmptyStr
       THEN enqueue(st2, ProviderDeltaUpdate(ToolCallDelta(acc.id, acc.name, tc.args)))
       ELSE st2

\* one iteration of the loop over delta.ToolCalls
processToolCall(st, tc) ==
    LET st1 == enterStage(st, stageTool)
        old == IF tc.index \in DOMAIN st1.toolCalls
               THEN st1.toolCalls[tc.index] ELSE emptyAccumulator
        acc == [id |-> IF tc.id # "" THEN tc.id ELSE old.id,
                name |-> IF tc.name # "" THEN tc.name ELSE old.name,
                argsStr |-> old.argsStr \o tc.args]
        st2 == [st1 EXCEPT !.toolCalls =
                    [i \in (DOMAIN @) \cup {tc.index} |->
                        IF i = tc.index THEN acc ELSE @[i]]]
    IN IF tc.args # EmptyStr
       THEN enqueue(st2, ProviderDeltaUpdate(ToolCallDelta(acc.id, acc.name, tc.args)))
       ELSE st2

RECURSIVE processToolCalls(_, _)
processToolCalls(st, tcs) ==
    IF tcs = << >> THEN st
    ELSE processToolCalls(processToolCall(st, Head(tcs)), Tail(tcs))

\* the rest of processChunk once the handler has answered th
processDelta(st, chunk, th) ==
    IF th.isThinking
    THEN enqueue([enterStage(st, stageThinking) EXCEPT !.rh = th.h],
                 ProviderDeltaUpdate(ThinkingDelta(th.text)))
    ELSE IF chunk.content # EmptyStr
    THEN enqueue([enterStage(st, stageText) EXCEPT !.textContent = Append(@, chunk.content)],
                 ProviderDeltaUpdate(TextDelta(chunk.content)))
    ELSE processToolCalls(st, chunk.toolCalls)

\* the part of processChunk that reads the first choice
processChoice(st, chunk) ==
    processDelta(st, chunk, ExtractThinking(st.rh, deltaToMap(chunk)))

\* withUsage keeping the cached tokens of the snapshot before
withUsageKeepsCached(st, chunk) ==
    IF chunk.usage > 0
    THEN [st EXCEPT !.usage = chunk.usage,
                    !.cached = IF chunk.cached > 0 THEN chunk.cached ELSE @]
    ELSE st

\* the usage snapshot of the chunk replaces s.usage (lines 153-163)
withUsage(st, chunk) ==
    IF chunk.usage > 0
    THEN [st EXCEPT !.usage = chunk.usage,
                    !.cached = IF chunk.cached > 0 THEN chunk.cached ELSE 0]
    ELSE st

\* processChunk mapping the finish reason of every chunk, given or not
processChunkAlwaysMaps(st, chunk) ==
    IF ~chunk.choices
    THEN withUsage(st, chunk)
    ELSE processChoice([withUsage(st, chunk) EXCEPT
                            !.stopReason = mapFinishReason(chunk.finish)],
                       chunk)

processChunk(st, chunk) ==
    IF ~chunk.choices
    THEN withUsage(st, chunk)
    ELSE processChoice([withUsage(st, chunk) EXCEPT
                            !.stopReason = IF chunk.finish # ""
                                           THEN mapFinishReason(chunk.finish) ELSE @],
                       chunk)

\* the loop of finalize over the toolCalls map, visited in the order `order`
RECURSIVE toolCallParts(_, _)
toolCallParts(accs, order) ==
    IF order = << >> THEN << >>
    ELSE LET acc == accs[Head(order)]
         IN (IF acc.id = "" \/ acc.name = "" THEN << >>
             ELSE << ToolCallPart(acc.id, acc.name, acc.argsStr) >>)
            \o toolCallParts(accs, Tail(order))

\* finalize leaving done unset
finalizeNotDone(st, order) ==
    LET st1 == [st EXCEPT !.stopReason = IF @ = "" THEN StopStop ELSE @]
        st2 == emitStageEnd(st1)
        st3 == [st2 EXCEPT !.parts = @ \o toolCallParts(st2.toolCalls, order)]
    IN enqueue(st3, ProviderMessageUpdate(
                        [AssistantMessage(st3.parts, st3.usage, st3.stopReason)
                             EXCEPT !.Cached = st3.cached]))

\* finalize; a Go map is ranged over in an unspecified order: `order` is the
\* order this run visits the keys of s.toolCalls in
finalize(st, order) ==
    LET st1 == [st EXCEPT !.done = TRUE,
                          !.stopReason = IF @ = "" THEN StopStop ELSE @]
        st2 == emitStageEnd(st1)
        st3 == [st2 EXCEPT !.parts = @ \o toolCallParts(st2.toolCalls, order)]
    IN enqueue(st3, ProviderMessageUpdate(
                        [AssistantMessage(st3.parts, st3.usage, st3.stopReason)
                             EXCEPT !.Cached = st3.cached]))

dequeue(st) ==
    [s |-> [st EXCEPT !.pending = Tail(@)], up |-> Head(st.pending), err |-> ""]

\* every order in which a range over a map with key set K can visit the keys
Orders(K) ==
    {o \in [1..Cardinality(K) -> K] : \A i, j \in 1..Cardinality(K) : i # j => o[i] # o[j]}

\* StreamNext with the error of the transport taken for the end of the stream
StreamNextNoErr(st, ctxDone, order) ==
    IF Len(st.pending) > 0 THEN dequeue(st)
    ELSE IF st.done THEN [s |-> st, up |-> Nil, err |-> "EOF"]
    ELSE IF st.err # "" THEN [s |-> st, up |-> Nil, err |-> st.err]
    ELSE IF ctxDone
         THEN [s |-> [st EXCEPT !.err = "context canceled"], up |-> Nil,
               err |-> "context canceled"]
    ELSE IF st.pos >= Len(wire)
         THEN LET st1 == finalize(st, order)
              IN IF Len(st1.pending) > 0 THEN dequeue(st1)
                 ELSE [s |-> st1, up |-> Nil, err |-> "EOF"]
    ELSE LET st1 == processChunk([st EXCEPT !.pos = @ + 1], wire[st.pos + 1])
         IN IF Len(st1.pending) > 0 THEN dequeue(st1)
            ELSE [s |-> st1, up |-> Nil, err |-> "again"]

\* StreamNext that returns the error of the context without keeping it
StreamNextForgetsCancel(st, ctxDone, order) ==
    IF Len(st.pending) > 0 THEN dequeue(st)
    ELSE IF st.done THEN [s |-> st, up |-> Nil, err |-> "EOF"]
    ELSE IF st.err # "" THEN [s |-> st, up |-> Nil, err |-> st.err]
    ELSE IF ctxDone
         THEN [s |-> st, up |-> Nil, err |-> "context canceled"]
    ELSE IF st.pos >= Len(wire)
         THEN IF wireErr
              THEN [s |-> [st EXCEPT !.err = "transport"], up |-> Nil, err |-> "transport"]
              ELSE LET st1 == finalize(st, order)
                   IN IF Len(st1.pending) > 0 THEN dequeue(st1)
                      ELSE [s |-> st1, up |-> Nil, err |-> "EOF"]
    ELSE LET st1 == processChunk([st EXCEPT !.pos = @ + 1], wire[st.pos + 1])
         IN IF Len(st1.pending) > 0 THEN dequeue(st1)
            ELSE [s |-> st1, up |-> Nil, err |-> "again"]

\* Stream.Next, up to and including one iteration of its loop. The result is
\* the Stream after it, the update and the error returned; err = "again"
\* stands for the loop going round (the chunk produced no update).
StreamNext(st, ctxDone, order) ==
    IF Len(st.pending) > 0 THEN dequeue(st)
    ELSE IF st.done THEN [s |-> st, up |-> Nil, err |-> "EOF"]
    ELSE IF st.err # "" THEN [s |-> st, up |-> Nil, err |-> st.err]
    ELSE IF ctxDone
         THEN [s |-> [st EXCEPT !.err = "context canceled"], up |-> Nil,
               err |-> "context canceled"]
    ELSE IF st.pos >= Len(wire)
         THEN IF wireErr
              THEN [s |-> [st EXCEPT !.err = "transport"], up |-> Nil, err |-> "transport"]
              ELSE LET st1 == finalize(st, order)
                   IN IF Len(st1.pending) > 0 THEN dequeue(st1)
                      ELSE [s |-> st1, up |-> Nil, err |-> "EOF"]
    ELSE LET st1 == processChunk([st EXCEPT !.pos = @ + 1], wire[st.pos + 1])
         IN IF Len(st1.pending) > 0 THEN dequeue(st1)
            ELSE [s |-> st1, up |-> Nil, err |-> "again"]

\* DebugLogger.Close on the sink `debug`: l.f.Close(); the file of a closed
\* sink stays closed and the second Close of it answers with an error
DebugLoggerClose(debug) ==
    IF debug = "nil" THEN [debug |-> debug, err |-> ""]
    ELSE [debug |-> "closed",
          err |-> IF debug = "closed" THEN "file already closed" ELSE ""]

\* Stream.Close with the debug sink left open
StreamCloseWireOnly(st, streamErr) ==
    [s |-> [st EXCEPT !.stream = "closed"], err |-> streamErr]

\* Stream.Close; streamErr is what s.stream.Close() answers
StreamClose(st, streamErr) ==
    [s |-> [st EXCEPT !.debug = IF @ # "nil" THEN DebugLoggerClose(@).debug ELSE @,
                      !.stream = "closed"],
     err |-> streamErr]

----------------------------------------------------------------------------
(* Tools *)

\* the catalog req.Tools: the names of the tools and their Spec().Parallel
ToolNames == {"search", "write"}

SpecParallel(name) == name = "search"

\* what a tool's Execute can return: a result with empty CallID and Name, a
\* result naming another call, an error, a context-cancellation error
ExecuteReturns ==
    { [res |-> [CallID |-> "", Name |-> "", IsError |-> FALSE, Text |-> "out"], err |-> ""],
      [res |-> [CallID |-> "other", Name |-> "other", IsError |-> FALSE, Text |-> "out"], err |-> ""],
      [res |-> [CallID |-> "", Name |-> "", IsError |-> FALSE, Text |-> ""], err |-> "boom"],
      [res |-> [CallID |-> "", Name |-> "", IsError |-> FALSE, Text |-> ""], err |-> "context canceled"] }

ZeroToolResult == [CallID |-> "", Name |-> "", IsError |-> FALSE, Text |-> ""]

interruptedToolResult(call) ==
    [CallID |-> call.CallID, Name |-> call.Name, IsError |-> TRUE,
     Text |-> "Request interrupted by user for tool use"]

toolNotFoundResult(call) ==
    [CallID |-> call.CallID, Name |-> call.Name, IsError |-> TRUE, Text |-> "tool not found"]

\* errorToolResult with the error text and no error flag
errorToolResultNotFlagged(call, err) ==
    [CallID |-> call.CallID, Name |-> call.Name, IsError |-> FALSE, Text |-> err]

errorToolResult(call, err) ==
    [CallID |-> call.CallID, Name |-> call.Name, IsError |-> TRUE, Text |-> err]

\* reachesExecute without the check of the context
reachesExecuteNoCtx(ctxErr, call) == call.Name \in ToolNames

\* executeSingleTool reaches tool.Execute (lines 497-505)
reachesExecute(ctxErr, call) == ~ctxErr /\ call.Name \in ToolNames

\* executeSingleTool with a cancellation error of Execute taken for a failure
executeSingleToolCancelFails(ctxErr, call, ret) ==
    IF ctxErr THEN interruptedToolResult(call)
    ELSE IF call.Name \notin ToolNames THEN toolNotFoundResult(call)
    ELSE IF ret.err # "" THEN errorToolResult(call, ret.err)
    ELSE [ret.res EXCEPT !.CallID = IF @ = "" THEN call.CallID ELSE @,
                         !.Name = IF @ = "" THEN call.Name ELSE @]

\* executeSingleTool; ret is what tool.Execute returns when it is reached
executeSingleTool(ctxErr, call, ret) ==
    IF ctxErr THEN interruptedToolResult(call)
    ELSE IF call.Name \notin ToolNames THEN toolNotFoundResult(call)
    ELSE IF ret.err # ""
         THEN IF ret.err \in {"context canceled", "context deadline exceeded"}
              THEN interruptedToolResult(call)
              ELSE errorToolResult(call, ret.err)
    ELSE [ret.res EXCEPT !.CallID = IF @ = "" THEN call.CallID ELSE @,
                         !.Name = IF @ = "" THEN call.Name ELSE @]

ToolResultMessage(res) ==
    [role |-> "tool", CallID |-> res.CallID, Name |-> res.Name,
     IsError |-> res.IsError, Text |-> res.Text]

----------------------------------------------------------------------------
(* The callbacks and the locals of executeTools                            *)

\* stepEmitter.delta and stepEmitter.message, called by goroutine `by`: "main",
\* the goroutine that called Step, or "execOne", the goroutine of a parallel call
\* A callback that was not given is not invoked.
emitterDelta(tr, by, d) ==
    IF d = Nil \/ ~rs.onDelta THEN tr ELSE Append(tr, [e |-> "delta", by |-> by, v |-> d])

emitterMessage(tr, by, msg) ==
    IF msg = Nil \/ ~rs.onMessage THEN tr
    ELSE Append(tr, [e |-> "message", by |-> by, v |-> msg])

\* where the Step goroutine goes on when a flushInOrder has returned: k names
\* the place of the call, idx and from what that place still needs
Then(k, idx, from) == [k |-> k, idx |-> idx, from |-> from]

NoThen == Then("", 0, "")

\* the locals of executeTools before the loop (lines 330-343, 378, 395); then
\* is set while a flushInOrder is making its callbacks
NewExec(calls) ==
    [calls |-> calls,
     idx |-> 0,
     results |-> [i \in 1..Len(calls) |-> ZeroToolResult],
     msgs |-> [i \in 1..Len(calls) |-> Nil],
     completed |-> [i \in 1..Len(calls) |-> FALSE],
     parallelIdx |-> [i \in 1..Len(calls) |-> FALSE],
     runningParallel |-> 0,
     nextToEmit |-> 0,
     then |-> NoThen]

NoExec == NewExec(<< >>)

\* where the Step goroutine is after the loop over the calls has ended
AfterLoop(x) == IF x.runningParallel > 0 THEN "drain" ELSE "ensure"

\* where it is after `continue` or after startParallel, with idx advanced
Continue(x) == IF x.idx >= Len(x.calls) THEN AfterLoop(x) ELSE "loop"

\* the calls the last loop of executeTools finds without a result, from i on
Uncompleted(x, i) == {j \in i..(Len(x.calls) - 1) : ~x.completed[j + 1]}

Min(S) == CHOOSE j \in S : \A k \in S : j <= k

RECURSIVE flushInOrder(_, _)
RECURSIVE afterFlush(_, _)

\* recordCompletion with the call's index made the next to emit, so that its
\* message is emitted at once and not in call order
recordCompletionEmitNow(x, idx, res, then) ==
    IF idx < 0 \/ idx >= Len(x.calls) THEN afterFlush(x, then)
    ELSE IF x.completed[idx + 1] THEN afterFlush(x, then)
    ELSE flushInOrder([x EXCEPT !.results[idx + 1] = res,
                                !.completed[idx + 1] = TRUE,
                                !.nextToEmit = idx], then)

\* recordCompletion with the first index taken for out of range
recordCompletionSkipFirst(x, idx, res, then) ==
    IF idx <= 0 \/ idx >= Len(x.calls) THEN afterFlush(x, then)
    ELSE IF x.completed[idx + 1] THEN afterFlush(x, then)
    ELSE flushInOrder([x EXCEPT !.results[idx + 1] = res,
                                !.completed[idx + 1] = TRUE], then)

\* recordCompletion (lines 380-390), up to the first callback of its
\* flushInOrder or, without one, up to where the Step goroutine goes on
recordCompletion(x, idx, res, then) ==
    IF idx < 0 \/ idx >= Len(x.calls) THEN afterFlush(x, then)
    ELSE IF x.completed[idx + 1] THEN afterFlush(x, then)
    ELSE flushInOrder([x EXCEPT !.results[idx + 1] = res,
                                !.completed[idx + 1] = TRUE], then)

\* flushInOrder (lines 355-376) from the test of its loop up to its next
\* callback: the message of the next call is stored and the Step goroutine
\* is about to call emitter.message with it (pc "message"); the two callbacks
\* are the steps FlushMessage and FlushEnd. When the loop ends the Step
\* goroutine goes on after the call.
flushInOrder(x, then) ==
    LET next == x.nextToEmit
    IN IF next < Len(x.calls) /\ x.completed[next + 1]
       THEN IF x.msgs[next + 1] # Nil
            THEN flushInOrder([x EXCEPT !.nextToEmit = next + 1], then)
            ELSE [ex |-> [x EXCEPT !.msgs[next + 1] = ToolResultMessage(x.results[next + 1]),
                                   !.then = then],
                  pc |-> "message"]
       ELSE afterFlush([x EXCEPT !.then = NoThen], then)

\* what follows the return of flushInOrder, up to the next step that another
\* goroutine can observe:
\*   "break"    the break of line 433
\*   "done"     recvOne returns false (line 419): the wait of a non-parallel
\*              call goes on to the check of line 446, the loop of line 459
\*              ends
\*   "recv"     recvOne counts the completion and returns true (lines 422-425)
\*   "continue" the next call of the loop (lines 448, 453)
\*   "ensure"   the last loop (lines 466-471) goes on with call idx, then
\*              the last flushInOrder (line 473)
\*   "return"   executeTools is about to return (line 474)
afterFlush(x, then) ==
    CASE then.k = "break" -> [ex |-> x, pc |-> AfterLoop(x)]
      [] then.k = "done" ->
            [ex |-> x, pc |-> IF then.from = "wait" THEN "check" ELSE "ensure"]
      [] then.k = "recv" ->
            LET x1 == IF then.idx >= 0 /\ then.idx < Len(x.parallelIdx)
                         /\ x.parallelIdx[then.idx + 1]
                      THEN [x EXCEPT !.runningParallel = @ - 1] ELSE x
            IN [ex |-> x1, pc |-> IF then.from = "drain" THEN AfterLoop(x1) ELSE "wait"]
      [] then.k = "continue" ->
            LET x1 == [x EXCEPT !.idx = @ + 1]
            IN [ex |-> x1, pc |-> Continue(x1)]
      [] then.k = "ensure" ->
            IF Uncompleted(x, then.idx) # {}
            THEN LET i == Min(Uncompleted(x, then.idx))
                 IN recordCompletion(x, i, interruptedToolResult(x.calls[i + 1]),
                                     Then("ensure", i + 1, ""))
            ELSE flushInOrder(x, Then("return", 0, ""))
      [] OTHER -> [ex |-> x, pc |-> "exit"]

markInterruptedFrom(x, start) ==
    [x EXCEPT !.results =
                 [i \in DOMAIN @ |->
                     IF i - 1 >= start /\ ~x.completed[i]
                     THEN interruptedToolResult(x.calls[i]) ELSE @[i]],
              !.completed = [i \in DOMAIN @ |-> @[i] \/ i - 1 >= start]]

\* extractToolCalls
extractToolCalls(msg) == SelectSeq(msg.Parts, LAMBDA p : p.type = "tool_call")

ErrUnknownUpdate == "step: unknown provider update"

\* handleProviderUpdate forwarding a delta twice
handleProviderUpdateTwice(tr, up) ==
    CASE up.type = "nil" -> [trace |-> tr, msg |-> Nil, ok |-> FALSE, err |-> ""]
      [] up.type = "delta" ->
            [trace |-> IF up.Delta # Nil
                       THEN emitterDelta(emitterDelta(tr, "main", up.Delta), "main", up.Delta)
                       ELSE tr,
             msg |-> Nil, ok |-> FALSE, err |-> ""]
      [] up.type = "message" ->
            [trace |-> emitterMessage(tr, "main", up.Message), msg |-> up.Message, ok |-> TRUE,
             err |-> ""]
      [] OTHER -> [trace |-> tr, msg |-> Nil, ok |-> FALSE, err |-> ErrUnknownUpdate]

\* handleProviderUpdate: the trace after it, the message, ok and the error
handleProviderUpdate(tr, up) ==
    CASE up.type = "nil" -> [trace |-> tr, msg |-> Nil, ok |-> FALSE, err |-> ""]
      [] up.type = "delta" ->
            [trace |-> IF up.Delta # Nil THEN emitterDelta(tr, "main", up.Delta) ELSE tr,
             msg |-> Nil, ok |-> FALSE, err |-> ""]
      [] up.type = "message" ->
            [trace |-> emitterMessage(tr, "main", up.Message), msg |-> up.Message, ok |-> TRUE,
             err |-> ""]
      [] OTHER -> [trace |-> tr, msg |-> Nil, ok |-> FALSE, err |-> ErrUnknownUpdate]

----------------------------------------------------------------------------
(* The inputs of a step: the wire the provider will deliver *)

CallNames == ToolNames \cup {"ghost"}

IdOf(index) == << "c0", "c1", "c2", "c3", "c4", "c5" >>[index + 1]

TextChunk == Chunk(0, TRUE, "", EmptyStr, << "a" >>, << >>)

ToolChunk(index, name) ==
    Chunk(0, TRUE, "", EmptyStr, EmptyStr,
          << ToolCallFragment(index, IdOf(index), name, << "j" >>) >>)

FinishChunk(n) == Chunk(1, TRUE, IF n > 0 THEN "tool_calls" ELSE "stop", EmptyStr, EmptyStr, << >>)

\* the assignments of names to n calls the bounds admit
NameLists(n) ==
    { names \in [1..n -> CallNames] :
        Cardinality({i \in 1..n : names[i] \in ToolNames /\ SpecParallel(names[i])}) <= MaxWorkers }

\* the calls of a step with parallel and serial tools mixed: two searches,
\* which may overlap, and a write
MixedNames == << "search", "search", "write" >>

\* what precedes the chunks of n tool calls: a text chunk, or nothing when
\* there is no tool call
Preambles(n) == IF n = 0 THEN { << >>, << TextChunk >> } ELSE { << TextChunk >> }

\* the preamble, then one chunk per tool call, then the finish chunk
StepWires ==
    UNION { { pre \o [i \in 1..n |-> ToolChunk(i - 1, names[i])] \o << FinishChunk(n) >> :
                names \in NameLists(n), pre \in Preambles(n) } :
            n \in 0..MaxWireCalls }
    \cup { << TextChunk >> \o [i \in DOMAIN MixedNames |-> ToolChunk(i - 1, MixedNames[i])]
                \o << FinishChunk(Len(MixedNames)) >> }

\* the chunks of the wires the adapter alone is run on
ReasoningChunk == Chunk(0, TRUE, "", << "r" >>, EmptyStr, << >>)

ArgsChunk(index) ==
    Chunk(0, TRUE, "", EmptyStr, EmptyStr, << ToolCallFragment(index, "", "", << "k" >>) >>)

IdOnlyChunk(index) ==
    Chunk(0, TRUE, "", EmptyStr, EmptyStr, << ToolCallFragment(index, IdOf(index), "", EmptyStr) >>)

UsageChunk == Chunk(2, FALSE, "", EmptyStr, EmptyStr, << >>)

LengthChunk == Chunk(0, TRUE, "length", EmptyStr, EmptyStr, << >>)

MixedChunk ==
    Chunk(0, TRUE, "", << "r" >>, << "a" >>, << ToolCallFragment(0, IdOf(0), "search", << "j" >>) >>)

\* a fragment that gives the call at index 0 another name
RenameChunk == ToolChunk(0, "write")

StreamChunks ==
    { TextChunk, ReasoningChunk, ToolChunk(0, "search"), ToolChunk(1, "write"),
      ArgsChunk(0), IdOnlyChunk(1), UsageChunk, LengthChunk, MixedChunk, RenameChunk }

StreamWires == UNION { [1..n -> StreamChunks] : n \in 0..MaxChunks }

\* the updates of the scripted provider: none, a delta, a message without
\* and one with a tool call
ScriptDelta == ProviderDeltaUpdate(TextDelta(<< "a" >>))
ScriptMessage == ProviderMessageUpdate(AssistantMessage(<< TextPart(<< "a" >>) >>, 0, StopStop))
ScriptToolMessage ==
    ProviderMessageUpdate(
        AssistantMessage(<< ToolCallPart(IdOf(0), "write", << "j" >>) >>, 0, StopToolUse))

ScriptUpdates == {Nil, ScriptDelta, ScriptMessage, ScriptToolMessage}

\* up to MaxScript updates and the update that comes with io.EOF
ScriptWires ==
    UNION { { pre \o << last >> : pre \in [1..n -> ScriptUpdates],
                                  last \in {Nil, ScriptDelta, ScriptMessage} } :
            n \in 0..MaxScript }

\* the tool calls of an assistant message, as any provider may deliver them
CallLists ==
    UNION { { [i \in 1..n |-> ToolCallPart(IdOf(i - 1), names[i], << "j" >>)] :
                names \in NameLists(n) } :
            n \in 0..MaxCalls }
    \cup { [i \in DOMAIN MixedNames |-> ToolCallPart(IdOf(i - 1), MixedNames[i], << "j" >>)] }

----------------------------------------------------------------------------
(* State *)

\* the nil StepResult (a StepResult runStep builds is never empty)
NilResult == << >>

\* the providers a request can name: none, one whose Stream fails, the chat
\* completion adapter, and one whose stream returns a script of updates
Providers == {"nil", "failing", "chat", "script"}

ErrNoProvider == "step: provider is required"
ErrOpen == "open failed"
ErrNoAssistantMessage == "step: provider stream finished without assistant message"

\* runStep's inputs (req.Provider, the callbacks of cfg), locals (cancelled is
\* set at line 293) and returns;
\* closes counts the calls of stream.Close() the deferred call has made
NewRun ==
    [provider |-> "chat", onDelta |-> TRUE, onMessage |-> TRUE,
     assistantMsg |-> Nil, hasAssistantMsg |-> FALSE, cancelled |-> FALSE,
     result |-> NilResult, err |-> "", closes |-> 0]

\* the requests Step is called with: a provider, and the callbacks given or not
Requests ==
    { [NewRun EXCEPT !.provider = p, !.onDelta = d, !.onMessage = d] :
        p \in Providers, d \in BOOLEAN }

\* what the provider of the request will deliver
WiresOf(provider) ==
    CASE provider = "chat" -> StepWires
      [] provider = "script" -> ScriptWires
      [] OTHER -> { << >> }

\* Step is called: nothing has run yet
Init ==
    /\ rs \in Requests
    /\ wire \in WiresOf(rs.provider)
    /\ wireErr \in (IF rs.provider \in {"chat", "script"} THEN BOOLEAN ELSE {FALSE})
    /\ ctxCancelled = FALSE
    /\ s = StepStream
    /\ pc = "open"
    /\ ex = NoExec
    /\ completions = << >>
    /\ toolsCancelled = FALSE
    /\ workers = << >>
    /\ executed = {}
    /\ rets = {}
    /\ cancelAt = Nil
    /\ trace = << >>
    /\ rt = Nil
    /\ callers = << >>
    /\ ss = Nil

\* runStep has drained a provider stream that delivered an assistant message
\* with the tool calls `calls` and calls executeTools (line 290)
InitTools ==
    \E calls \in CallLists :
        LET msg == AssistantMessage(calls, 0, StopToolUse)
        IN /\ wire = << >>
           /\ wireErr = FALSE
           /\ ctxCancelled = FALSE
           /\ s = [StepStream EXCEPT !.done = TRUE]
           /\ pc = IF Len(calls) = 0 THEN "status" ELSE "loop"
           /\ rs = [NewRun EXCEPT !.assistantMsg = msg, !.hasAssistantMsg = TRUE]
           /\ ex = NewExec(calls)
           /\ completions = << >>
           /\ toolsCancelled = FALSE
           /\ workers = [i \in 1..Len(calls) |-> "none"]
           /\ executed = {}
           /\ rets = {}
           /\ cancelAt = Nil
           /\ trace = << [e |-> "message", by |-> "main", v |-> msg] >>
           /\ rt = Nil
           /\ callers = << >>
           /\ ss = Nil

\* NewStream has returned a Stream over the wire; nothing was read yet
InitStream ==
    /\ wire \in StreamWires
    /\ wireErr \in BOOLEAN
    /\ ctxCancelled = FALSE
    /\ s = StepStream
    /\ pc = "consume"
    /\ rs = NewRun
    /\ ex = NoExec
    /\ completions = << >>
    /\ toolsCancelled = FALSE
    /\ workers = << >>
    /\ executed = {}
    /\ rets = {}
    /\ cancelAt = Nil
    /\ trace = << >>
    /\ rt = Nil
    /\ callers = << >>
    /\ ss = Nil

execVars == <<ex, completions, toolsCancelled, workers, executed, rets>>
wireVars == <<wire, wireErr>>
ctxVars == <<ctxCancelled, cancelAt>>

ReturnEvent == [e |-> "return", by |-> "main", v |-> Nil]

\* the context of the tools: context.WithCancel(ctx), cancelled by cancelTools
toolCtxErr == ctxCancelled \/ toolsCancelled

\* the calls whose executeSingleTool has found the context live and the tool
\* in the catalog, and has not yet called tool.Execute
Checked ==
    {i \in DOMAIN workers : workers[i] = "checked"}
        \cup (IF pc = "call" THEN {ex.idx + 1} ELSE {})

\* ctx is cancelled by the caller of Step, at any time; cancelAt keeps where
\* the Step goroutine and the calls were then
Cancel ==
    /\ ~ctxCancelled
    /\ pc # "returned"
    /\ ctxCancelled' = TRUE
    /\ cancelAt' = [pc |-> pc, started |-> executed, checked |-> Checked]
    /\ UNCHANGED <<rt, ss, callers, wireVars, s, pc, rs, execVars, trace>>

----------------------------------------------------------------------------
(* runStep: opening and draining the provider stream *)

\* runStep returns err and no result (lines 236, 249)
\* Return without the deferred stream.Close()
ReturnNoClose(run, tr, st, result, err) ==
    /\ rs' = [run EXCEPT !.result = result, !.err = err]
    /\ s' = st
    /\ pc' = "returned"
    /\ trace' = Append(tr, ReturnEvent)

\* a return of runStep after the stream was opened: the deferred
\* stream.Close() runs, what it answers is dropped (line 251)
Return(run, tr, st, result, err) ==
    /\ rs' = [run EXCEPT !.result = result, !.err = err, !.closes = @ + 1]
    /\ s' = StreamClose(st, "").s
    /\ pc' = "returned"
    /\ trace' = Append(tr, ReturnEvent)

FailOpen(err) ==
    /\ rs' = [rs EXCEPT !.result = NilResult, !.err = err]
    /\ pc' = "returned"
    /\ trace' = Append(trace, ReturnEvent)
    /\ UNCHANGED s

\* RunStepOpen with a nil provider taken for one whose stream is empty
RunStepOpenNoNilCheck ==
    /\ pc = "open"
    /\ IF rs.provider = "failing"
       THEN FailOpen(ErrOpen)
       ELSE /\ s' = StepStream
            /\ pc' = "next"
            /\ UNCHANGED <<rs, trace>>
    /\ UNCHANGED <<rt, ss, callers, wireVars, ctxVars, execVars>>

\* runStep up to the pull loop (lines 235-254)
RunStepOpen ==
    /\ pc = "open"
    /\ IF rs.provider = "nil"
       THEN FailOpen(ErrNoProvider)
       ELSE IF rs.provider = "failing"
       THEN FailOpen(ErrOpen)
       ELSE /\ s' = StepStream
            /\ pc' = "next"
            /\ UNCHANGED <<rs, trace>>
    /\ UNCHANGED <<rt, ss, callers, wireVars, ctxVars, execVars>>

\* the stream of the scripted provider: the updates of the script but the
\* last without error, then the last one (nil for none) with io.EOF, or the
\* transport's error
ScriptNext(st) ==
    IF st.pos < Len(wire) - 1
    THEN [s |-> [st EXCEPT !.pos = @ + 1], up |-> wire[st.pos + 1], err |-> ""]
    ELSE IF wireErr
    THEN [s |-> [st EXCEPT !.err = "transport"], up |-> Nil, err |-> "transport"]
    ELSE [s |-> [st EXCEPT !.done = TRUE, !.pos = Len(wire)], up |-> wire[Len(wire)],
          err |-> "EOF"]

\* stream.Next(ctx) of runStep (line 257)
Pull(order) ==
    IF rs.provider = "script" THEN ScriptNext(s) ELSE StreamNext(s, ctxCancelled, order)

\* AfterPull with a missing assistant message taken for an empty one
AfterPullNoCheck(run, tr, st) ==
    LET msg == IF run.hasAssistantMsg THEN run.assistantMsg
               ELSE AssistantMessage(<< >>, 0, "")
        calls == extractToolCalls(msg)
    IN /\ rs' = [run EXCEPT !.assistantMsg = msg]
       /\ s' = st
       /\ trace' = tr
       /\ ex' = NewExec(calls)
       /\ completions' = << >>
       /\ workers' = [i \in 1..Len(calls) |-> "none"]
       /\ UNCHANGED <<toolsCancelled, executed, rets>>
       /\ pc' = IF Len(calls) = 0 THEN "status" ELSE "loop"

\* lines 285-290: after the pull loop, with the assistant message (if any):
\* the early return, or the start of executeTools
AfterPull(run, tr, st) ==
    IF ~run.hasAssistantMsg
    THEN /\ Return(run, tr, st, NilResult, ErrNoAssistantMessage)
         /\ UNCHANGED execVars
    ELSE LET calls == extractToolCalls(run.assistantMsg)
         IN /\ rs' = run
            /\ s' = st
            /\ trace' = tr
            /\ ex' = NewExec(calls)
            /\ completions' = << >>
            /\ workers' = [i \in 1..Len(calls) |-> "none"]
            /\ UNCHANGED <<toolsCancelled, executed, rets>>
            /\ pc' = IF Len(calls) = 0 THEN "status" ELSE "loop"

\* stream.Next returned an update and no error (lines 275-282)
RunStepNextUpdate ==
    /\ pc = "next"
    /\ \E order \in Orders(DOMAIN s.toolCalls) :
         LET r == Pull(order)
             h == handleProviderUpdate(trace, r.up)
         IN /\ r.err = ""
            /\ IF h.err # ""
               THEN Return(rs, h.trace, r.s, NilResult, h.err)
               ELSE /\ s' = r.s
                    /\ trace' = h.trace
                    /\ rs' = IF h.ok
                             THEN [rs EXCEPT !.assistantMsg = h.msg, !.hasAssistantMsg = TRUE]
                             ELSE rs
                    /\ UNCHANGED pc
    /\ UNCHANGED <<rt, ss, callers, wireVars, ctxVars, execVars>>

\* the chunk produced no update: Stream.Next reads the next chunk
RunStepNextAgain ==
    /\ pc = "next"
    /\ \E order \in Orders(DOMAIN s.toolCalls) :
         LET r == Pull(order)
         IN /\ r.err = "again"
            /\ s' = r.s
    /\ UNCHANGED <<rt, ss, callers, wireVars, ctxVars, pc, rs, execVars, trace>>

\* RunStepNextEOF with the update that comes with io.EOF dropped
RunStepNextEOFDropsUpdate ==
    /\ pc = "next"
    /\ \E order \in Orders(DOMAIN s.toolCalls) :
         LET r == Pull(order)
         IN /\ r.err = "EOF"
            /\ AfterPull(rs, trace, r.s)
    /\ UNCHANGED <<rt, ss, callers, wireVars, ctxVars>>

\* stream.Next returned io.EOF, possibly with a last update (lines 259-272)
RunStepNextEOF ==
    /\ pc = "next"
    /\ \E order \in Orders(DOMAIN s.toolCalls) :
         LET r == Pull(order)
             h == handleProviderUpdate(trace, r.up)
             run == IF h.ok THEN [rs EXCEPT !.assistantMsg = h.msg, !.hasAssistantMsg = TRUE]
                    ELSE rs
         IN /\ r.err = "EOF"
            /\ IF h.err # ""
               THEN Return(rs, h.trace, r.s, NilResult, h.err) /\ UNCHANGED execVars
               ELSE AfterPull(run, h.trace, r.s)
    /\ UNCHANGED <<rt, ss, callers, wireVars, ctxVars>>

\* stream.Next returned another error (line 273)
RunStepNextError ==
    /\ pc = "next"
    /\ \E order \in Orders(DOMAIN s.toolCalls) :
         LET r == Pull(order)
         IN /\ r.err \notin {"", "again", "EOF"}
            /\ Return(rs, trace, r.s, NilResult, r.err)
    /\ UNCHANGED <<rt, ss, callers, wireVars, ctxVars, execVars>>

----------------------------------------------------------------------------
(* executeTools: the scheduling loop, run by the goroutine that called Step *)

CurrentCall == ex.calls[ex.idx + 1]

\* IsParallel with the Parallel flag of the tool's spec ignored
IsParallelAnyTool(call) == call.Name \in ToolNames

\* parallel := ok && tool.Spec().Parallel (lines 436-437)
IsParallel(call) == call.Name \in ToolNames /\ SpecParallel(call.Name)

\* the call is reached with ctx cancelled (lines 430-434)
LoopCancelled ==
    /\ pc = "loop"
    /\ ctxCancelled
    /\ LET m == flushInOrder(markInterruptedFrom(ex, ex.idx), Then("break", 0, ""))
       IN /\ ex' = m.ex
          /\ pc' = m.pc
    /\ UNCHANGED <<rt, ss, callers, wireVars, ctxVars, s, rs, completions, toolsCancelled, workers, executed, rets, trace>>

\* startParallel (lines 397-401, 456)
startParallel(x) ==
    [x EXCEPT !.runningParallel = @ + 1,
              !.parallelIdx[x.idx + 1] = TRUE,
              !.idx = @ + 1]

LoopParallel ==
    /\ pc = "loop"
    /\ ~ctxCancelled
    /\ IsParallel(CurrentCall)
    /\ ex' = startParallel(ex)
    /\ workers' = [workers EXCEPT ![ex.idx + 1] = "spawned"]
    /\ pc' = Continue(ex')
    /\ UNCHANGED <<rt, ss, callers, wireVars, ctxVars, s, rs, completions, toolsCancelled, trace, executed, rets>>

\* SerialMayStart with the wait for the parallel tools left out
SerialMayStartNoWait(x) == TRUE

\* a non-parallel call: the wait for the running parallel tools comes first
\* (the condition of the loop at line 441)
SerialMayStart(x) == x.runningParallel = 0

LoopSerial ==
    /\ pc = "loop"
    /\ ~ctxCancelled
    /\ ~IsParallel(CurrentCall)
    /\ pc' = "wait"
    /\ UNCHANGED <<rt, ss, callers, wireVars, ctxVars, s, rs, execVars, trace>>

\* recvOne without the ctx.Done() case
RecvOneNeverDone ==
    /\ pc \in {"wait", "drain"}
    /\ ex.runningParallel > 0
    /\ ctxCancelled
    /\ FALSE
    /\ UNCHANGED vars

\* recvOne, the ctx.Done() case (lines 415-419), up to the first callback of
\* its flushInOrder
RecvOneDone ==
    /\ pc \in {"wait", "drain"}
    /\ ex.runningParallel > 0
    /\ ctxCancelled
    /\ toolsCancelled' = TRUE
    /\ LET m == flushInOrder(markInterruptedFrom(ex, 0), Then("done", 0, pc))
       IN /\ ex' = m.ex
          /\ pc' = m.pc
    /\ UNCHANGED <<rt, ss, callers, wireVars, ctxVars, s, rs, completions, workers, executed, rets, trace>>

\* recvOne, the completions case (lines 420-422): the receive and
\* recordCompletion up to the first callback of its flushInOrder
RecvOneCompletion ==
    /\ pc \in {"wait", "drain"}
    /\ ex.runningParallel > 0
    /\ Len(completions) > 0
    /\ LET c == Head(completions)
           m == recordCompletion(ex, c.idx, c.res, Then("recv", c.idx, pc))
       IN /\ ex' = m.ex
          /\ pc' = m.pc
    /\ completions' = Tail(completions)
    /\ UNCHANGED <<rt, ss, callers, wireVars, ctxVars, s, rs, toolsCancelled, workers, executed, rets, trace>>

\* flushInOrder calls emitter.message with the message of the next call
\* (line 372)
FlushMessage ==
    /\ pc = "message"
    /\ trace' = emitterMessage(trace, "main", ex.msgs[ex.nextToEmit + 1])
    /\ pc' = "end"
    /\ UNCHANGED <<rt, ss, callers, wireVars, ctxVars, s, rs, execVars>>

\* flushInOrder calls emitter.delta with the ToolExecEnd of that call and
\* goes on with its loop (lines 373-374)
FlushEnd ==
    /\ pc = "end"
    /\ LET res == ex.results[ex.nextToEmit + 1]
           m == flushInOrder([ex EXCEPT !.nextToEmit = @ + 1], ex.then)
       IN /\ trace' = emitterDelta(trace, "main", ToolExecDelta(res.CallID, res.Name, "end"))
          /\ ex' = m.ex
          /\ pc' = m.pc
    /\ UNCHANGED <<rt, ss, callers, wireVars, ctxVars, s, rs, completions, toolsCancelled, workers, executed, rets>>

\* the non-parallel call after the wait, with ctx cancelled (lines 446-449)
SerialInterrupted ==
    /\ \/ pc = "check"
       \/ pc = "wait" /\ SerialMayStart(ex)
    /\ ctxCancelled
    /\ LET m == recordCompletion(ex, ex.idx, interruptedToolResult(CurrentCall),
                                 Then("continue", 0, ""))
       IN /\ ex' = m.ex
          /\ pc' = m.pc
    /\ UNCHANGED <<rt, ss, callers, wireVars, ctxVars, s, rs, completions, toolsCancelled, workers, executed, rets, trace>>

\* the non-parallel call after the wait: ToolExecStart (line 450)
SerialStart ==
    /\ \/ pc = "check"
       \/ pc = "wait" /\ SerialMayStart(ex)
    /\ ~ctxCancelled
    /\ trace' = emitterDelta(trace, "main",
                             ToolExecDelta(CurrentCall.CallID, CurrentCall.Name, "start"))
    /\ pc' = "pre"
    /\ UNCHANGED <<rt, ss, callers, wireVars, ctxVars, s, rs, execVars>>

\* executeSingleTool called inline, its check of the context and its lookup
\* of the tool (lines 451, 497-503): the call goes on to tool.Execute, or its
\* result is recorded (line 452)
InlineCheck ==
    /\ pc = "pre"
    /\ IF reachesExecute(toolCtxErr, CurrentCall)
       THEN /\ pc' = "call"
            /\ UNCHANGED ex
       ELSE LET m == recordCompletion(ex, ex.idx,
                                      executeSingleTool(toolCtxErr, CurrentCall, Nil),
                                      Then("continue", 0, ""))
            IN /\ ex' = m.ex
               /\ pc' = m.pc
    /\ UNCHANGED <<rt, ss, callers, wireVars, ctxVars, s, rs, completions, toolsCancelled, workers, executed, rets, trace>>

\* the inline executeSingleTool calls tool.Execute (line 505), whatever has
\* become of the context since its check
InlineCall ==
    /\ pc = "call"
    /\ pc' = "inline"
    /\ executed' = executed \cup {ex.idx + 1}
    /\ UNCHANGED <<rt, ss, callers, wireVars, ctxVars, s, rs, ex, completions, toolsCancelled, workers, rets, trace>>

\* tool.Execute returns to the inline executeSingleTool (lines 505-518, 452)
InlineEnd ==
    /\ pc = "inline"
    /\ \E ret \in ExecuteReturns :
         LET m == recordCompletion(ex, ex.idx, executeSingleTool(FALSE, CurrentCall, ret),
                                   Then("continue", 0, ""))
         IN /\ ex' = m.ex
            /\ pc' = m.pc
            /\ rets' = rets \cup {<<ex.idx + 1, ret>>}
    /\ UNCHANGED <<rt, ss, callers, wireVars, ctxVars, s, rs, completions, toolsCancelled, workers, executed, trace>>

\* the last loop of executeTools and its last flushInOrder (lines 465-473),
\* up to the first callback
EnsureResults ==
    /\ pc = "ensure"
    /\ LET m == afterFlush(ex, Then("ensure", 0, ""))
       IN /\ ex' = m.ex
          /\ pc' = m.pc
    /\ UNCHANGED <<rt, ss, callers, wireVars, ctxVars, s, rs, completions, toolsCancelled, workers, executed, rets, trace>>

\* executeTools returns msgs (line 474): the deferred cancelTools runs
ExecuteToolsReturn ==
    /\ pc = "exit"
    /\ toolsCancelled' = TRUE
    /\ pc' = "status"
    /\ UNCHANGED <<rt, ss, callers, wireVars, ctxVars, s, rs, ex, completions, workers, executed, rets, trace>>

\* runStep reads ctx.Err() and calls emitter.delta with the StepStatusDelta
\* (lines 293-294)
StepStatus ==
    /\ pc = "status"
    /\ rs' = [rs EXCEPT !.cancelled = ctxCancelled]
    /\ trace' = emitterDelta(trace, "main", StepStatusDelta(ctxCancelled))
    /\ pc' = "return"
    /\ UNCHANGED <<rt, ss, callers, wireVars, ctxVars, s, execVars>>

\* runStep returns the result, with ctx.Err() when it found the context
\* cancelled (lines 292, 296-299)
StepReturn ==
    /\ pc = "return"
    /\ Return(rs, trace, s, << rs.assistantMsg >> \o ex.msgs,
              IF rs.cancelled THEN "context canceled" ELSE "")
    /\ UNCHANGED <<rt, ss, callers, wireVars, ctxVars, execVars>>

----------------------------------------------------------------------------
(* execOne: the goroutine of a parallel call *)

\* the non-blocking send on completions (lines 348-352)
send(ch, c) == IF Len(ch) < Len(ex.calls) THEN Append(ch, c) ELSE ch

\* the goroutine starts and calls emitter.delta(ToolExecStart) (line 346)
WorkerStart(i) ==
    /\ workers[i] = "spawned"
    /\ workers' = [workers EXCEPT ![i] = "callback"]
    /\ trace' = emitterDelta(trace, "execOne", ToolExecDelta(ex.calls[i].CallID, ex.calls[i].Name, "start"))
    /\ UNCHANGED <<rt, ss, callers, wireVars, ctxVars, s, pc, rs, ex, completions, toolsCancelled, executed, rets>>

\* the callback has returned; executeSingleTool checks the context and looks
\* the tool up (lines 347, 497-503): the call goes on to tool.Execute, or its
\* result is sent on completions
WorkerExecCheck(i) ==
    /\ workers[i] = "callback"
    /\ IF reachesExecute(toolCtxErr, ex.calls[i])
       THEN /\ workers' = [workers EXCEPT ![i] = "checked"]
            /\ UNCHANGED completions
       ELSE /\ workers' = [workers EXCEPT ![i] = "exited"]
            /\ completions' = send(completions,
                    [idx |-> i - 1, res |-> executeSingleTool(toolCtxErr, ex.calls[i], Nil)])
    /\ UNCHANGED <<rt, ss, callers, wireVars, ctxVars, s, pc, rs, ex, toolsCancelled, trace, executed, rets>>

\* executeSingleTool calls tool.Execute (line 505), whatever has become of
\* the context since its check
WorkerExecCall(i) ==
    /\ workers[i] = "checked"
    /\ workers' = [workers EXCEPT ![i] = "running"]
    /\ executed' = executed \cup {i}
    /\ UNCHANGED <<rt, ss, callers, wireVars, ctxVars, s, pc, rs, ex, completions, toolsCancelled, trace, rets>>

\* tool.Execute returns; the result is sent on completions
WorkerExecEnd(i) ==
    /\ workers[i] = "running"
    /\ \E ret \in ExecuteReturns :
         /\ completions' = send(completions,
                    [idx |-> i - 1, res |-> executeSingleTool(FALSE, ex.calls[i], ret)])
         /\ rets' = rets \cup {<<i, ret>>}
    /\ workers' = [workers EXCEPT ![i] = "exited"]
    /\ UNCHANGED <<rt, ss, callers, wireVars, ctxVars, s, pc, rs, ex, toolsCancelled, trace, executed>>

----------------------------------------------------------------------------

NextTools ==
    \/ Cancel
    \/ LoopCancelled
    \/ LoopParallel
    \/ LoopSerial
    \/ RecvOneDone
    \/ RecvOneCompletion
    \/ FlushMessage
    \/ FlushEnd
    \/ SerialInterrupted
    \/ SerialStart
    \/ InlineCheck
    \/ InlineCall
    \/ InlineEnd
    \/ EnsureResults
    \/ ExecuteToolsReturn
    \/ StepStatus
    \/ StepReturn
    \/ \E i \in DOMAIN workers : WorkerStart(i)
    \/ \E i \in DOMAIN workers : WorkerExecCheck(i)
    \/ \E i \in DOMAIN workers : WorkerExecCall(i)
    \/ \E i \in DOMAIN workers : WorkerExecEnd(i)

----------------------------------------------------------------------------
(* A consumer that drives the adapter alone: it calls Next again and again *)

\* the errors with which Stream.Next ends the stream
IsTerminal(ev) == ev.e = "next" /\ ev.v.err # ""

NextReturns == SelectSeq(trace, LAMBDA ev : ev.e = "next")

\* the call of Next gets as far as s.stream.Next() (lines 82-97)
ReadsTransport(st, ctxDone) ==
    Len(st.pending) = 0 /\ ~st.done /\ st.err = "" /\ ~ctxDone

\* one call of Stream.Next(ctx), before or after Close; a call that loops
\* reads one chunk per step. Next does not look at whether the Stream was
\* closed: the read of a closed transport gives what the transport still
\* holds, as before Close, or the transport's error.
ConsumerNext ==
    /\ pc = "consume"
    /\ Len(SelectSeq(trace, IsTerminal)) <= MaxNextAfterEnd
    /\ \E order \in Orders(DOMAIN s.toolCalls) :
       \E readFails \in IF s.stream = "closed" /\ ReadsTransport(s, ctxCancelled)
                        THEN BOOLEAN ELSE {FALSE} :
         LET r == IF readFails
                  THEN [s |-> [s EXCEPT !.err = "transport"], up |-> Nil, err |-> "transport"]
                  ELSE StreamNext(s, ctxCancelled, order)
         IN /\ s' = r.s
            /\ trace' = IF r.err = "again" THEN trace
                         ELSE Append(trace, [e |-> "next", by |-> "consumer",
                                             v |-> [up |-> r.up, err |-> r.err]])
    /\ UNCHANGED <<rt, ss, callers, wireVars, ctxVars, pc, rs, execVars>>

NextStream ==
    \/ Cancel
    \/ ConsumerNext

Next ==
    \/ RunStepOpen
    \/ RunStepNextUpdate
    \/ RunStepNextAgain
    \/ RunStepNextEOF
    \/ RunStepNextError
    \/ NextTools

\* a whole step, from the call of Step
Spec == Init /\ [][Next]_vars

\* the tool phase of a step, from the call of executeTools
SpecTools == InitTools /\ [][NextTools]_vars

\* the adapter alone, from NewStream
SpecStream == InitStream /\ [][NextStream]_vars

----------------------------------------------------------------------------
(* Observations *)

\* the calls whose tool.Execute is in progress
Running ==
    {i \in DOMAIN workers : workers[i] = "running"}
        \cup (IF pc = "inline" THEN {ex.idx + 1} ELSE {})

\* the goroutines of parallel calls that were started and have not ended
ActiveWorkers ==
    {i \in DOMAIN workers : workers[i] \in {"spawned", "callback", "checked", "running"}}

\* the tool result messages delivered to onMessage, in order
ToolMessages == SelectSeq(trace, LAMBDA ev : ev.e = "message" /\ ev.v.role = "tool")

Returned == pc = "returned"

----------------------------------------------------------------------------
(* Claims *)

\* C1: the Execute of a non-parallel tool overlaps the Execute of no other
\* call; the Step goroutine handles a non-parallel call (one naming no tool of
\* the catalog included) only while no goroutine of a parallel call is
\* active, and only calls naming a parallel tool of the catalog get a goroutine.
C1_NonParallelExclusive ==
    /\ \A i \in Running : ~IsParallel(ex.calls[i]) => Running = {i}
    /\ pc \in {"pre", "call", "inline"} => ActiveWorkers = {} /\ ~IsParallel(CurrentCall)
    /\ \A i \in DOMAIN workers :
          workers[i] # "none" => ex.calls[i].Name \in ToolNames /\ SpecParallel(ex.calls[i].Name)

\* a non-parallel tool executes after two parallel tools have run and ended
C1_Witness ==
    /\ pc = "inline"
    /\ Cardinality({i \in DOMAIN workers : workers[i] = "exited"}) = 2
    /\ executed = {1, 2, 3}

\* C2: the tool result messages reach onMessage in call order, each once: the
\* k-th message delivered is the message of the k-th call, and Step returns
\* them in that order. Between the two callbacks of a call (pc "end") its
\* message is delivered and not yet counted; before the first (pc "message")
\* it is stored and not yet delivered.
C2_MessagesInCallOrder ==
    /\ Len(ToolMessages) = ex.nextToEmit + (IF pc = "end" THEN 1 ELSE 0)
    /\ Len(ToolMessages) <= Len(ex.calls)
    /\ \A k \in 1..Len(ToolMessages) :
          /\ ex.completed[k]
          /\ ex.msgs[k] = ToolResultMessage(ex.results[k])
          /\ ToolMessages[k].v = ex.msgs[k]
    /\ \A k \in DOMAIN ex.msgs :
          k > Len(ToolMessages) + (IF pc = "message" THEN 1 ELSE 0) => ex.msgs[k] = Nil
    /\ (Returned /\ rs.result # NilResult) =>
          /\ Len(ToolMessages) = Len(ex.calls)
          /\ \A k \in 1..Len(ex.calls) : rs.result[k + 1] = ToolMessages[k].v

\* the second call has completed before the first one: its result is
\* recorded and its message is held back
C2_Witness ==
    /\ ~ctxCancelled
    /\ Len(ex.calls) >= 2
    /\ ex.completed[2] /\ ~ex.completed[1]
    /\ ~ex.results[2].IsError
    /\ ToolMessages = << >>

\* the tool-call parts of an assistant message, in order
ToolCallsOf(msg) == SelectSeq(msg.Parts, LAMBDA p : p.type = "tool_call")

IsToolResultMessage(msg) == "role" \in DOMAIN msg /\ msg.role = "tool"

\* C3: a non-nil result of Step is the assistant message followed by one
\* tool result message per tool-call part of it.
C3_ResultComplete ==
    (Returned /\ rs.result # NilResult) =>
        /\ rs.result[1] = rs.assistantMsg
        /\ rs.result[1].role = "assistant"
        /\ Len(rs.result) = 1 + Len(ToolCallsOf(rs.result[1]))
        /\ \A k \in 2..Len(rs.result) : IsToolResultMessage(rs.result[k])

\* Step has returned a result for three tool calls after a cancellation
C3_Witness ==
    /\ Returned
    /\ Len(rs.result) = 4
    /\ rs.err = "context canceled"
    /\ executed # {}

\* C4: every tool result message of the result carries the callID of the
\* tool-call part at its position, whatever the tool returned.
C4_CallIDEchoed ==
    (Returned /\ rs.result # NilResult) =>
        LET calls == ToolCallsOf(rs.result[1])
        IN /\ Len(rs.result) = 1 + Len(calls)
           /\ \A i \in 1..Len(calls) :
                 /\ IsToolResultMessage(rs.result[i + 1])
                 /\ rs.result[i + 1].CallID = calls[i].CallID

\* the positions of the Step goroutine inside executeTools
InExecuteTools ==
    {"loop", "wait", "check", "pre", "call", "inline", "drain", "message", "end", "ensure", "exit"}

CancelledInTools == cancelAt # Nil /\ cancelAt.pc \in InExecuteTools

\* C5, as claimed: after a cancellation during the tool phase every call has
\* exactly one tool result message and each has isError = true.
C5_AllErrorsAfterCancel ==
    (Returned /\ CancelledInTools) =>
        /\ Len(ToolMessages) = Len(ex.calls)
        /\ \A k \in DOMAIN ex.msgs :
              IsToolResultMessage(ex.msgs[k]) /\ ex.msgs[k].IsError

\* C5, amended: after a cancellation during the tool phase every call has
\* exactly one tool result message, and it has isError = true for every call
\* whose executeSingleTool had not yet checked the context when ctx was
\* cancelled. A call that had passed that check is passed to Execute, before
\* the cancellation or after it, and may have the result Execute returned.
C5_UnstartedAreErrorsAfterCancel ==
    (Returned /\ CancelledInTools) =>
        /\ Len(ToolMessages) = Len(ex.calls)
        /\ \A k \in DOMAIN ex.msgs :
              /\ IsToolResultMessage(ex.msgs[k])
              /\ ToolMessages[k].v = ex.msgs[k]
              /\ k \notin (cancelAt.started \cup cancelAt.checked) => ex.msgs[k].IsError

\* a step cancelled in the tool phase has returned: a call that had passed
\* the check of the context was passed to Execute after the cancellation and
\* has its tool's result, a call not yet reached is interrupted
C5_Witness ==
    /\ Returned
    /\ CancelledInTools
    /\ \E k \in cancelAt.checked : ~ex.msgs[k].IsError
    /\ \E k \in DOMAIN ex.msgs :
          /\ k \notin (cancelAt.started \cup cancelAt.checked)
          /\ ex.msgs[k].Text = "Request interrupted by user for tool use"

\* C6: a step whose context was cancelled after the provider stream was
\* opened returns the cancellation error with a complete result.
C6_CancelledStepReturnsResult ==
    (Returned /\ cancelAt # Nil /\ cancelAt.pc # "open") =>
        /\ rs.err = "context canceled"
        /\ rs.result # NilResult
        /\ Len(rs.result) = 1 + Len(ToolCallsOf(rs.result[1]))

\* what the successive calls of Next have returned
R == NextReturns

\* C7: with no transport error and no cancellation, Next returns deltas, then
\* one MessageUpdate, then only end-of-stream with no update.
C7_DeltasThenOneMessage ==
    (~wireErr /\ ~ctxCancelled) =>
        \A i \in 1..Len(R) :
            /\ R[i].v.err \in {"", "EOF"}
            /\ R[i].v.err = "" => R[i].v.up.type \in {"delta", "message"}
            /\ R[i].v.err = "EOF" =>
                  /\ R[i].v.up = Nil
                  /\ \E j \in 1..(i - 1) : R[j].v.up.type = "message"
            /\ R[i].v.up.type = "message" =>
                  \A j \in (i + 1)..Len(R) : R[j].v.err = "EOF"

\* Next has returned two deltas, the message and twice end-of-stream
C7_Witness ==
    /\ ~wireErr /\ ~ctxCancelled
    /\ Len(R) = 5
    /\ R[1].v.up.type = "delta" /\ R[2].v.up.type = "delta"
    /\ R[3].v.up.type = "message"
    /\ R[4].v.err = "EOF" /\ R[5].v.err = "EOF"

\* C8: also when ctx is cancelled while the adapter awaits a chunk, Next ends
\* the stream only by end-of-stream, after it has delivered the MessageUpdate
\* (no transport error assumed).
C8_CancelStillDeliversMessage ==
    ~wireErr =>
        \A i \in 1..Len(R) :
            /\ R[i].v.err \in {"", "EOF"}
            /\ R[i].v.err = "EOF" => \E j \in 1..(i - 1) : R[j].v.up.type = "message"

\* C9: no callback invocation begins after Step has returned.
C9_NoCallbackAfterReturn ==
    \A i \in DOMAIN trace : trace[i].e = "return" => i = Len(trace)

\* C10: every callback is invoked by the goroutine that called Step, and no
\* two goroutines are inside a callback at once.
C10_CallbacksOnCallerSequential ==
    /\ \A i \in DOMAIN trace : trace[i].e \in {"delta", "message"} => trace[i].by = "main"
    /\ Cardinality({i \in DOMAIN workers : workers[i] = "callback"}) <= 1

----------------------------------------------------------------------------
(* The adapter's message *)

\* the deltas Next has returned before its i-th return
DeltasBefore(i) ==
    LET ds == SelectSeq(SubSeq(R, 1, i - 1), LAMBDA ev : ev.v.up.type = "delta")
    IN [j \in 1..Len(ds) |-> ds[j].v.up.Delta]

\* the strings of a sequence of deltas of one kind, concatenated
ConcatDeltas(ds) ==
    Concat([j \in 1..Len(ds) |->
                IF ds[j].kind = "tool_call" THEN ds[j].ArgsDelta ELSE ds[j].Delta])

PartRank(p) ==
    CASE p.type = "thinking" -> 1
      [] p.type = "text" -> 2
      [] OTHER -> 3

\* C11: the finalized message has all thinking parts first, then at most one
\* text part, the concatenation of all text fragments, then the tool calls.
C11_ThinkingThenOneText ==
    \A i \in 1..Len(R) :
        R[i].v.up.type = "message" =>
            LET ps == R[i].v.up.Message.Parts
                texts == SelectSeq(DeltasBefore(i), LAMBDA d : d.kind = "text")
            IN /\ \A a, b \in DOMAIN ps : a < b => PartRank(ps[a]) <= PartRank(ps[b])
               /\ Cardinality({a \in DOMAIN ps : ps[a].type = "text"}) <= 1
               /\ \A a \in DOMAIN ps :
                     ps[a].type = "text" => ps[a].Text = ConcatDeltas(texts)

\* the elements of a set of integers in ascending order
SortedSeq(K) == CHOOSE o \in Orders(K) : \A i, j \in DOMAIN o : i < j => o[i] < o[j]

\* the wire indices whose accumulator has received an id and a name
Eligible(accs) == {k \in DOMAIN accs : accs[k].id # "" /\ accs[k].name # ""}

\* C12: the tool-call parts of the finalized message come last, one per wire
\* index that received an id and a name, in ascending order of the index.
C12_ToolCallsAscending ==
    \A i \in 1..Len(R) :
        R[i].v.up.type = "message" =>
            LET ps == R[i].v.up.Message.Parts
                ks == SortedSeq(Eligible(s.toolCalls))
            IN /\ \A a, b \in DOMAIN ps :
                     a < b /\ ps[a].type = "tool_call" => ps[b].type = "tool_call"
               /\ ToolCallsOf(R[i].v.up.Message) =
                     [j \in 1..Len(ks) |->
                         ToolCallPart(s.toolCalls[ks[j]].id, s.toolCalls[ks[j]].name,
                                      s.toolCalls[ks[j]].argsStr)]

\* the number of tool-call fragments of a wire that carry argument bytes
RECURSIVE ArgFragments(_)
ArgFragments(w) ==
    IF w = << >> THEN 0
    ELSE (IF Head(w).choices
          THEN Len(SelectSeq(Head(w).toolCalls, LAMBDA tc : tc.args # EmptyStr))
          ELSE 0) + ArgFragments(Tail(w))

\* C13: every fragment of every chunk has its delta emitted, also when a
\* chunk carries fragments of several kinds.
C13_EveryFragmentEmitted ==
    (~wireErr /\ ~ctxCancelled /\ \E i \in 1..Len(R) : R[i].v.err = "EOF") =>
        LET ds == DeltasBefore(Len(R) + 1)
            n(kind) == Len(SelectSeq(ds, LAMBDA d : d.kind = kind))
        IN /\ n("thinking") =
                Len(SelectSeq(wire, LAMBDA c : c.choices /\ c.reasoning # EmptyStr))
           /\ n("text") =
                Len(SelectSeq(wire, LAMBDA c : c.choices /\ c.content # EmptyStr))
           /\ n("tool_call") = ArgFragments(wire)

\* the ToolCallDeltas returned before the i-th return that carry the callID
\* and the name of the part p
DeltasOf(p, i) ==
    SelectSeq(DeltasBefore(i),
              LAMBDA d : d.kind = "tool_call" /\ d.CallID = p.CallID /\ d.Name = p.Name)

\* C14, as claimed: argsJSON of every tool-call part is the concatenation of
\* the argsDelta of the ToolCallDeltas emitted with its callID and name.
C14_ArgsAreDeltasOfCall ==
    \A i \in 1..Len(R) :
        R[i].v.up.type = "message" =>
            LET calls == ToolCallsOf(R[i].v.up.Message)
            IN \A a \in DOMAIN calls :
                  calls[a].ArgsJSON = ConcatDeltas(DeltasOf(calls[a], i))

\* the chunks whose tool-call fragments processChunk handles (lines 165-201)
ReachesToolLoop(c) == c.choices /\ c.reasoning = EmptyStr /\ c.content = EmptyStr

\* the fragments of wire index k that processChunk has handled, in order
RECURSIVE HandledFragments(_, _)
HandledFragments(w, k) ==
    IF w = << >> THEN << >>
    ELSE (IF ReachesToolLoop(Head(w))
          THEN SelectSeq(Head(w).toolCalls, LAMBDA tc : tc.index = k)
          ELSE << >>) \o HandledFragments(Tail(w), k)

\* every fragment of frs with argument bytes arrived when the accumulator,
\* holding id and name before frs, held the id and the name of the part p
RECURSIVE ArgsAfterIdentity(_, _, _, _)
ArgsAfterIdentity(frs, id, name, p) ==
    IF frs = << >> THEN TRUE
    ELSE LET id2 == IF Head(frs).id # "" THEN Head(frs).id ELSE id
             name2 == IF Head(frs).name # "" THEN Head(frs).name ELSE name
         IN /\ Head(frs).args # EmptyStr => id2 = p.CallID /\ name2 = p.Name
            /\ ArgsAfterIdentity(Tail(frs), id2, name2, p)

\* the wire index of the call with the id `id`
IndexOfId(id) == CHOOSE k \in 0..5 : IdOf(k) = id

\* C14, amended: argsJSON of a tool-call part is the concatenation of the
\* argsDelta of the ToolCallDeltas emitted with its callID and name, for every
\* call whose id and name had arrived, with their final values, by the
\* fragment that carried its first argument bytes.
C14_ArgsAreDeltasOfIdentifiedCall ==
    \A i \in 1..Len(R) :
        R[i].v.up.type = "message" =>
            LET calls == ToolCallsOf(R[i].v.up.Message)
            IN \A a \in DOMAIN calls :
                  ArgsAfterIdentity(
                      HandledFragments(wire, IndexOfId(calls[a].CallID)), "", "", calls[a])
                  => calls[a].ArgsJSON = ConcatDeltas(DeltasOf(calls[a], i))

\* the message has a call whose argument bytes arrived in two fragments, the
\* second without id and name
C14_Witness ==
    /\ wire = << ToolChunk(0, "search"), ArgsChunk(0) >>
    /\ \E i \in 1..Len(R) :
          /\ R[i].v.up.type = "message"
          /\ ToolCallsOf(R[i].v.up.Message) = << ToolCallPart("c0", "search", << "j", "k" >>) >>
          /\ Len(DeltasOf(ToolCallsOf(R[i].v.up.Message)[1], i)) = 2

----------------------------------------------------------------------------
(* Errors *)

\* the errors of Execute that executeSingleTool takes for a cancellation
IsCancellation(err) == err \in {"context canceled", "context deadline exceeded"}

\* C16: with ctx never cancelled Step returns no error whatever the tools do:
\* a call of an unknown tool has an error message "tool not found", a call
\* whose Execute returned an error has its text in an error message, and
\* every call of a known tool was executed.
C16_ToolFailuresDoNotFailStep ==
    (Returned /\ ~ctxCancelled /\ rs.result # NilResult) =>
        /\ rs.err = ""
        /\ Len(rs.result) = 1 + Len(ex.calls)
        /\ \A k \in DOMAIN ex.calls :
              LET msg == rs.result[k + 1]
              IN IF ex.calls[k].Name \notin ToolNames
                 THEN /\ k \notin executed
                      /\ msg.IsError
                      /\ msg.Text = "tool not found"
                 ELSE /\ k \in executed
                      /\ \E ret \in ExecuteReturns : <<k, ret>> \in rets
                      /\ \A ret \in ExecuteReturns :
                            (<<k, ret>> \in rets /\ ret.err # "" /\ ~IsCancellation(ret.err)) =>
                                msg.IsError /\ msg.Text = ret.err

\* a step has returned without error after a call of an unknown tool and a
\* call whose Execute failed, both with an error result
C16_Witness ==
    /\ Returned /\ ~ctxCancelled
    /\ rs.err = ""
    /\ Len(ex.calls) = 2
    /\ ex.calls[1].Name \notin ToolNames
    /\ \E ret \in ExecuteReturns : ret.err = "boom" /\ <<2, ret>> \in rets
    /\ rs.result[2].IsError /\ rs.result[3].IsError

\* the deltas delivered to onDelta, in order
Deltas ==
    LET ds == SelectSeq(trace, LAMBDA ev : ev.e = "delta")
    IN [j \in 1..Len(ds) |-> ds[j].v]

\* C20: when Step has returned a result, one StepStatusDelta was emitted, it
\* is the last delta delivered, and it says cancelled exactly when Step
\* returned the cancellation error.
C20_StatusDeltaLast ==
    (Returned /\ rs.result # NilResult) =>
        /\ Len(SelectSeq(Deltas, LAMBDA d : d.kind = "step")) = 1
        /\ Deltas[Len(Deltas)].kind = "step"
        /\ Deltas[Len(Deltas)].Cancelled = (rs.err = "context canceled")

\* the deltas the chunks of a wire give rise to, each fragment carrying the
\* id and the name of its call
RECURSIVE WireDeltas(_)
WireDeltas(w) ==
    IF w = << >> THEN << >>
    ELSE LET c == Head(w)
         IN (IF c.content # EmptyStr THEN << TextDelta(c.content) >>
             ELSE [j \in 1..Len(c.toolCalls) |->
                      ToolCallDelta(c.toolCalls[j].id, c.toolCalls[j].name,
                                    c.toolCalls[j].args)])
            \o WireDeltas(Tail(w))

\* the deltas of the updates a script returns without error
ScriptDeltas ==
    LET ds == SelectSeq(SubSeq(wire, 1, Len(wire) - 1),
                        LAMBDA up : up.type = "delta")
    IN [j \in 1..Len(ds) |-> ds[j].Delta]

NoToolRan == executed = {} /\ ex = NoExec /\ workers = << >>

\* C15: when the transport reports an error Step returns it with no result,
\* has run no tool and emitted no StepStatusDelta, the adapter has produced
\* no MessageUpdate, and the deltas before the error were forwarded.
C15_TransportErrorFailsStep ==
    (Returned /\ wireErr /\ cancelAt = Nil) =>
        /\ rs.err = "transport"
        /\ rs.result = NilResult
        /\ NoToolRan
        /\ \A i \in DOMAIN Deltas : Deltas[i].kind # "step"
        /\ rs.provider = "chat" => \A i \in DOMAIN trace : trace[i].e # "message"
        /\ rs.onDelta =>
              Deltas = IF rs.provider = "chat" THEN WireDeltas(wire) ELSE ScriptDeltas

\* the transport has failed after a text chunk and three tool-call chunks
C15_Witness ==
    /\ Returned /\ wireErr /\ cancelAt = Nil
    /\ rs.provider = "chat"
    /\ rs.err = "transport"
    /\ Len(Deltas) = 4

\* C17: with no provider, or a provider whose Stream fails, Step returns that
\* error and no result, and has invoked no callback, tool or stream operation.
C17_NoStreamNoEffects ==
    rs.provider \in {"nil", "failing"} =>
        /\ pc \in {"open", "returned"}
        /\ s = StepStream
        /\ NoToolRan
        /\ trace = IF Returned THEN << ReturnEvent >> ELSE << >>
        /\ Returned =>
              /\ rs.result = NilResult
              /\ rs.err = IF rs.provider = "nil" THEN ErrNoProvider ELSE ErrOpen

\* Step was called without a provider, with callbacks, and has returned
C17_Witness ==
    /\ Returned
    /\ rs.provider = "nil"
    /\ rs.onDelta /\ rs.onMessage
    /\ rs.err = ErrNoProvider

\* the script has no MessageUpdate, neither before nor with io.EOF
NoMessageInScript == \A i \in DOMAIN wire : wire[i].type # "message"

\* C18: when the provider stream ends without any MessageUpdate, Step fails
\* with the no-assistant-message error, returns no result and runs no tool.
C18_NoAssistantMessage ==
    (Returned /\ rs.provider = "script" /\ ~wireErr /\ NoMessageInScript) =>
        /\ rs.err = ErrNoAssistantMessage
        /\ rs.result = NilResult
        /\ NoToolRan
        /\ \A i \in DOMAIN trace : trace[i].e # "message"
        /\ \A i \in DOMAIN Deltas : Deltas[i].kind # "step"

\* a stream of two deltas and the end, the second delta coming with io.EOF
C18_Witness ==
    /\ Returned
    /\ rs.provider = "script" /\ ~wireErr
    /\ wire = << ScriptDelta, ScriptDelta >>
    /\ Len(Deltas) = 2
    /\ rs.err = ErrNoAssistantMessage

\* the callbacks the claim names for the update up: onDelta for a
\* ProviderDeltaUpdate, onMessage for a ProviderMessageUpdate
Forwarded(up) ==
    CASE up.type = "delta" /\ rs.onDelta -> << [e |-> "delta", by |-> "main", v |-> up.Delta] >>
      [] up.type = "message" /\ rs.onMessage ->
            << [e |-> "message", by |-> "main", v |-> up.Message] >>
      [] OTHER -> << >>

\* the step that pulls an update forwards it and nothing else, and keeps of
\* the update what it keeps without callbacks
PullForwards ==
    (pc = "next" /\ ctxCancelled' = ctxCancelled) =>
        \E order \in Orders(DOMAIN s.toolCalls) :
            LET r == Pull(order)
                new == SubSeq(trace', Len(trace) + 1, Len(trace'))
            IN /\ s' = IF pc' = "returned" THEN StreamClose(r.s, "").s ELSE r.s
               /\ SubSeq(trace', 1, Len(trace)) = trace
               /\ SelectSeq(new, LAMBDA ev : ev.e # "return") = Forwarded(r.up)
               /\ r.err = "" =>
                     /\ pc' = "next"
                     /\ rs' = IF r.up.type = "message"
                              THEN [rs EXCEPT !.assistantMsg = r.up.Message,
                                              !.hasAssistantMsg = TRUE]
                              ELSE rs

\* C19: in the step that pulls an update, runStep forwards it once to its
\* callback, if given, and to nothing else, before the next update is pulled;
\* the update pulled and what runStep keeps of it are the same with and
\* without callbacks. The stream is left as the pull left it, closed when the
\* step returns.
C19_UpdatesForwarded == [][PullForwards]_vars

\* two deltas and the message of the adapter's stream were forwarded
C19_Witness ==
    /\ rs.provider = "chat"
    /\ rs.onDelta /\ rs.onMessage
    /\ Len(trace) = 3
    /\ trace[1].e = "delta" /\ trace[2].e = "delta"
    /\ trace[3] = [e |-> "message", by |-> "main", v |-> rs.assistantMsg]

----------------------------------------------------------------------------
(* A reasoning handler on its own: the ThinkingParts of a stored message   *)
(* are converted for a request to targetModel, the extra field is given as *)
(* one delta to a fresh handler of the same type, and that one is flushed  *)

MaxParts == 2   \* ThinkingParts of the message given to ConvertThinkingToExtra

TargetModels == {"m1", "m2"}

Formats == {"", FormatClaude, FormatOpenAI, "google-gemini-v1"}

\* the first ThinkingPart of the message
FirstParts ==
    { ThinkingPart(id, th, sig, f, m) :
        id \in {"", "r1"}, th \in {EmptyStr, << "t" >>}, sig \in {"", "sig"},
        f \in Formats, m \in {"", "m1"} }

\* the ThinkingParts that follow it
NextParts ==
    { ThinkingPart("", << "u" >>, "", "", "m1"),
      ThinkingPart("", << "v" >>, "sg2", FormatClaude, ""),
      ThinkingPart("", EmptyStr, "sg3", FormatOpenAI, "m1") }

PartLists ==
    { << >> } \cup
    UNION { { << p >> \o rest : p \in FirstParts, rest \in [1..(n - 1) -> NextParts] } :
            n \in 1..MaxParts }

Dialects == {"noop", "default", "openrouter"}

\* a new handler of the type of h
NewHandler(dialect, modelName) ==
    CASE dialect = "default" -> NewDefaultReasoningHandler(modelName)
      [] dialect = "openrouter" -> NewReasoningHandler(modelName)
      [] OTHER -> NoOpReasoningHandler

\* no step and no stream is running
NoStep ==
    /\ wire = << >>
    /\ wireErr = FALSE
    /\ ctxCancelled = FALSE
    /\ s = StepStream
    /\ pc = "none"
    /\ rs = NewRun
    /\ ex = NoExec
    /\ completions = << >>
    /\ toolsCancelled = FALSE
    /\ workers = << >>
    /\ executed = {}
    /\ rets = {}
    /\ cancelAt = Nil
    /\ trace = << >>

stepVars == <<wire, wireErr, ctxCancelled, s, pc, rs, ex, completions,
              toolsCancelled, workers, executed, rets, cancelAt, trace>>

InitReasoning ==
    /\ NoStep
    /\ callers = << >>
    /\ ss = Nil
    /\ \E dialect \in Dialects, targetModel \in TargetModels, parts \in PartLists :
         rt = [h |-> NewHandler(dialect, targetModel), parts |-> parts,
               targetModel |-> targetModel, pc |-> "convert", out |-> Nil,
               viaJSON |-> FALSE, fresh |-> Nil, extracted |-> Nil, flushed |-> << >>]

\* h.ConvertThinkingToExtra(parts, targetModel)
HandlerConvert ==
    /\ rt # Nil
    /\ rt.pc = "convert"
    /\ rt' = [rt EXCEPT !.out = ConvertThinkingToExtra(rt.h, rt.parts, rt.targetModel),
                        !.pc = "extract"]
    /\ UNCHANGED <<stepVars, callers, ss>>

\* fresh.ExtractThinking(map[string]any{key: value}) on a new handler of the
\* same type, for the model modelName; the value is given as it was returned
\* or as it comes back from JSON
HandlerExtract ==
    /\ rt # Nil
    /\ rt.pc = "extract"
    /\ rt.out.key # ""
    /\ \E viaJSON \in BOOLEAN, modelName \in TargetModels \cup {""} :
         LET value == IF viaJSON THEN jsonRoundTrip(rt.out.value) ELSE rt.out.value
             deltaMap == DeltaMap(IF rt.out.key = ReasoningField THEN value ELSE Nil,
                                  IF rt.out.key = "reasoning_details" THEN value ELSE Nil)
             r == ExtractThinking(NewHandler(rt.h.dialect, modelName), deltaMap)
         IN rt' = [rt EXCEPT !.viaJSON = viaJSON, !.fresh = r.h,
                             !.extracted = [text |-> r.text, isThinking |-> r.isThinking],
                             !.pc = "flush"]
    /\ UNCHANGED <<stepVars, callers, ss>>

\* fresh.FlushThinking()
HandlerFlush ==
    /\ rt # Nil
    /\ rt.pc = "flush"
    /\ LET f == FlushThinking(rt.fresh)
       IN rt' = [rt EXCEPT !.fresh = f.h, !.flushed = f.parts, !.pc = "done"]
    /\ UNCHANGED <<stepVars, callers, ss>>

NextReasoning ==
    \/ HandlerConvert
    \/ HandlerExtract
    \/ HandlerFlush

\* a reasoning handler alone, from its constructor
SpecReasoning == InitReasoning /\ [][NextReasoning]_vars

----------------------------------------------------------------------------
(* Cross-model degradation *)

\* the part at Go index i of the message is in the extra field value `out`
InExtra(out, i) ==
    /\ out.value # Nil
    /\ IF out.value.type = "string"
       THEN \* the field is the concatenation of the texts of the chosen parts
            /\ rt.parts[i + 1].Thinking # EmptyStr
            /\ out.value.v # Concat([j \in 1..Len(rt.parts) |->
                                      IF j = i + 1 \/ (rt.parts[j].ModelName # ""
                                                       /\ rt.parts[j].ModelName # rt.targetModel)
                                      THEN EmptyStr ELSE rt.parts[j].Thinking])
       ELSE \E k \in 1..Len(out.value.v) : out.value.v[k].index = i

\* C21: for every list of ThinkingParts and every target model, a part whose
\* modelName differs from the target model (an empty modelName included, a
\* part with a signature and no text included) is never in the extra field
\* value ConvertThinkingToExtra returns.
C21_DifferingPartsNotInExtra ==
    (rt # Nil /\ rt.out # Nil) =>
        \A i \in 0..(Len(rt.parts) - 1) :
            rt.parts[i + 1].ModelName # rt.targetModel => ~InExtra(rt.out, i)


----------------------------------------------------------------------------
(* Reasoning round trip *)

\* the flushed parts are the one part that was converted, field by field
SamePart(flushed, p) ==
    /\ Len(flushed) = 1
    /\ flushed[1].Thinking = p.Thinking
    /\ flushed[1].Signature = p.Signature
    /\ flushed[1].Format = p.Format
    /\ flushed[1].ModelName = p.ModelName

\* one ThinkingPart was converted, its extra field went through JSON to a
\* fresh handler of the same type made for the part's model, which was flushed
RoundTripDone ==
    /\ rt # Nil
    /\ rt.pc = "done"
    /\ Len(rt.parts) = 1
    /\ rt.viaJSON
    /\ rt.fresh.modelName = rt.parts[1].ModelName

\* C22: converting one ThinkingPart, giving the extra field as one delta to a
\* fresh handler of the same dialect and flushing it yields one ThinkingPart
\* with the thinking, signature, format and modelName of the original, for the
\* structured-details dialect and for the single-field textual dialect.
C22_RoundTrip ==
    RoundTripDone => SamePart(rt.flushed, rt.parts[1])

----------------------------------------------------------------------------
(* The text of the message *)

\* the texts of the text parts of ps, concatenated in order
TextOfParts(ps) ==
    LET tps == SelectSeq(ps, LAMBDA p : p.type = "text")
    IN Concat([a \in 1..Len(tps) |-> tps[a].Text])

\* the wire has chunks of text alone: no reasoning and no tool calls
TextOnlyWire ==
    \A k \in DOMAIN wire :
        wire[k].reasoning = EmptyStr /\ wire[k].reasoning_details = << >>
        /\ wire[k].toolCalls = << >>

\* the chunks of the wire that carry text
ContentChunks == {k \in DOMAIN wire : wire[k].choices /\ wire[k].content # EmptyStr}

\* C23: when the stream ends normally, the TextDelta strings delivered, in
\* order, concatenate to the concatenation of the texts of the text parts of
\* the finalized message; for a wire of text chunks only, the message has
\* exactly one text part and there was one TextDelta per chunk with content.
C23_TextDeltasAreMessageText ==
    \A i \in 1..Len(R) :
        R[i].v.up.type = "message" =>
            LET ps == R[i].v.up.Message.Parts
                texts == SelectSeq(DeltasBefore(i), LAMBDA d : d.kind = "text")
            IN /\ ConcatDeltas(texts) = TextOfParts(ps)
               /\ (TextOnlyWire /\ ContentChunks # {}) =>
                     /\ Cardinality({a \in DOMAIN ps : ps[a].type = "text"}) = 1
                     /\ Len(texts) = Cardinality(ContentChunks)

\* text, reasoning, text: the message has two text parts; and a wire of two
\* text chunks alone has ended in a message
C23_Witness ==
    \E i \in 1..Len(R) :
        /\ R[i].v.up.type = "message"
        /\ \/ /\ wire = << TextChunk, ReasoningChunk, TextChunk >>
              /\ Cardinality({a \in DOMAIN R[i].v.up.Message.Parts :
                                R[i].v.up.Message.Parts[a].type = "text"}) = 2
           \/ wire = << TextChunk, TextChunk, LengthChunk >>

----------------------------------------------------------------------------
(* Closing the adapter's Stream *)

MaxCloses == 2   \* calls of Close on one Stream

\* the wires of the streams that are closed
MaxCloseChunks == 2   \* chunks of a wire whose Stream is closed

CloseWires ==
    UNION { [1..n -> {TextChunk, ToolChunk(0, "search")}] : n \in 0..MaxCloseChunks }

\* NewStream has returned a Stream, with or without a debug sink
InitClose ==
    /\ wire \in CloseWires
    /\ wireErr \in BOOLEAN
    /\ ctxCancelled = FALSE
    /\ \E debug \in {"nil", "open"} : s = NewStream(NewDefaultReasoningHandler(ModelName), debug)
    /\ pc = "consume"
    /\ rs = NewRun
    /\ ex = NoExec
    /\ completions = << >>
    /\ toolsCancelled = FALSE
    /\ workers = << >>
    /\ executed = {}
    /\ rets = {}
    /\ cancelAt = Nil
    /\ trace = << >>
    /\ rt = Nil
    /\ callers = << >>
    /\ ss = Nil

CloseReturns == SelectSeq(trace, LAMBDA ev : ev.e = "close")

\* one call of Stream.Close(), at any time; the wire stream's own Close
\* answers nil or an error
ConsumerClose ==
    /\ pc = "consume"
    /\ Len(CloseReturns) < MaxCloses
    /\ \E streamErr \in {"", "close failed"} :
         LET r == StreamClose(s, streamErr)
         IN /\ s' = r.s
            /\ trace' = Append(trace, [e |-> "close", by |-> "consumer",
                                       v |-> [up |-> Nil, err |-> r.err]])
    /\ UNCHANGED <<rt, ss, callers, wireVars, ctxVars, pc, rs, execVars>>

NextClose ==
    \/ Cancel
    \/ ConsumerNext
    \/ ConsumerClose

\* the adapter alone, read and closed by one consumer
SpecClose == InitClose /\ [][NextClose]_vars

\* this step is a call of Close
IsClose == Len(trace') = Len(trace) + 1 /\ trace'[Len(trace')].e = "close"

\* C24: every call of Close, the first one or a later one, before or after the
\* end of the stream, with or without a debug sink, leaves the wire stream
\* and the debug sink released and changes nothing else; a later call leaves
\* the Stream as the first call left it.
C24_CloseIsIdempotent ==
    [][IsClose =>
          /\ s'.stream = "closed"
          /\ s'.debug = (IF s.debug = "nil" THEN "nil" ELSE "closed")
          /\ [s' EXCEPT !.stream = s.stream, !.debug = s.debug] = s
          /\ (Len(CloseReturns) > 0 => s' = s)]_vars

\* Close was called twice on a Stream with a debug sink that had reached the
\* end of its wire, and once before the first chunk of another was read
C24_Witness ==
    \/ /\ Len(CloseReturns) = 2
       /\ s.done
       /\ s.debug = "closed"
       /\ s.stream = "closed"
    \/ /\ Len(CloseReturns) = 2
       /\ ~s.done
       /\ Len(wire) > 0
       /\ s.debug = "nil"

----------------------------------------------------------------------------
(* The order in which the calls are started *)

\* the call is one the loop runs inline: its tool is not flagged parallel,
\* or the catalog has no tool of its name
Barrier(i) == ~(ex.calls[i].Name \in ToolNames /\ SpecParallel(ex.calls[i].Name))

\* the Step goroutine is executing the call inline (from its ToolExecStart on)
Inline(i) == pc \in {"pre", "call", "inline"} /\ ex.idx + 1 = i

\* the call has been started: it got a goroutine, or it is or was executed
Started(i) == workers[i] # "none" \/ i \in executed \/ Inline(i)

\* C25: the calls are started in their original order, and a non-parallel
\* call is a barrier: while it executes every earlier call has finished (its
\* goroutine has ended and its result is recorded) and no later call has
\* started; a later call starts only when the barrier has its result.
C25_NonParallelIsBarrier ==
    /\ \A i, k \in DOMAIN ex.calls :
          (i < k /\ Started(k)) => (Started(i) \/ ex.completed[i])
    /\ \A j \in DOMAIN ex.calls :
          (Barrier(j) /\ Inline(j)) =>
              /\ \A i \in 1..(j - 1) :
                    ex.completed[i] /\ workers[i] \in {"none", "exited"}
              /\ \A k \in (j + 1)..Len(ex.calls) : ~Started(k) /\ ~ex.completed[k]
    /\ \A j, k \in DOMAIN ex.calls :
          (j < k /\ Barrier(j) /\ Started(k)) => (ex.completed[j] /\ j \notin Running)

\* two adjacent parallel calls execute at once while the non-parallel call
\* after them waits; and that call executes after both have ended
C25_Witness ==
    \/ /\ pc = "wait"
       /\ Running = {1, 2}
       /\ ex.idx = 2
       /\ Barrier(3)
    \/ /\ Inline(3)
       /\ Barrier(3)
       /\ executed = {1, 2, 3}
       /\ 3 \in Running

----------------------------------------------------------------------------
(* The lifecycle deltas of a call *)

\* the positions of the trace with a ToolExecDelta of the stage for the call
ExecDeltasAt(callID, stage) ==
    {p \in DOMAIN trace :
        /\ trace[p].e = "delta"
        /\ trace[p].v.kind = "tool_exec"
        /\ trace[p].v.Stage = stage
        /\ trace[p].v.CallID = callID}

\* C26: the ToolExecEnd delta of a call is emitted once, right after the
\* call's ToolResultMessage, and a ToolExecStart delta of the same call was
\* emitted before it; also for a call interrupted by cancellation before or
\* while it runs.
C26_StartMessageEnd ==
    \A p \in DOMAIN trace :
        (trace[p].e = "delta" /\ trace[p].v.kind = "tool_exec" /\ trace[p].v.Stage = "end") =>
            /\ ExecDeltasAt(trace[p].v.CallID, "end") = {p}
            /\ p > 1
            /\ trace[p - 1].e = "message"
            /\ trace[p - 1].v.role = "tool"
            /\ trace[p - 1].v.CallID = trace[p].v.CallID
            /\ \E q \in ExecDeltasAt(trace[p].v.CallID, "start") : q < p

----------------------------------------------------------------------------
(* Interrupted calls *)

\* the result is the interrupted result of the call
IsInterrupted(res, call) ==
    /\ res.IsError
    /\ res.CallID = call.CallID
    /\ res.Name = call.Name
    /\ res.Text = "Request interrupted by user for tool use"

\* C27: a call whose executeSingleTool checks the context once ctx is
\* cancelled is not passed to Execute: the calls passed to Execute had been
\* passed, or had passed that check, when ctx was cancelled; and a
\* call of a tool of the catalog that was never passed to Execute has, once
\* its result is recorded, the interrupted result with its callID and name;
\* a call whose Execute returned a context-cancellation or a deadline error
\* has the interrupted result too, not an error result with the error text.
C27_InterruptedResults ==
    /\ cancelAt # Nil => executed \subseteq (cancelAt.started \cup cancelAt.checked)
    /\ \A i \in DOMAIN ex.calls :
          (ex.completed[i] /\ i \notin executed /\ ex.calls[i].Name \in ToolNames) =>
              IsInterrupted(ex.results[i], ex.calls[i])
    /\ \A i \in DOMAIN ex.calls :
          (ex.completed[i] /\ \E r \in rets : r[1] = i /\ IsCancellation(r[2].err)) =>
              IsInterrupted(ex.results[i], ex.calls[i])
    /\ \A i \in DOMAIN ex.calls :
          \A err \in {"context canceled", "context deadline exceeded"} :
              ex.calls[i].Name \in ToolNames =>
                  IsInterrupted(executeSingleTool(FALSE, ex.calls[i],
                                                  [res |-> ZeroToolResult, err |-> err]),
                                ex.calls[i])

\* ctx was cancelled with one call executed, whose Execute then returned a
\* cancellation error, and another call of the catalog not yet reached; both
\* have their results
C27_Witness ==
    /\ cancelAt # Nil
    /\ \E i, j \in DOMAIN ex.calls :
          /\ i # j
          /\ ex.completed[i] /\ ex.completed[j]
          /\ \E r \in rets : r[1] = i /\ r[2].err = "context canceled"
          /\ j \notin executed
          /\ ex.calls[j].Name \in ToolNames

----------------------------------------------------------------------------
(* The assistant message of the step *)

\* the MessageUpdates of a scripted provider stream, in order
MessagesOf(w) == SelectSeq(w, LAMBDA up : up.type = "message")

LastMessage(w) == MessagesOf(w)[Len(MessagesOf(w))].Message

\* C28: once the provider stream has ended, the assistant message of the
\* step is the last MessageUpdate the stream delivered, the one returned
\* together with io.EOF included: the tool calls are extracted from it and it
\* is the first message of the result.
C28_LastMessageIsUsed ==
    (/\ rs.provider = "script"
     /\ ~wireErr
     /\ pc \notin {"open", "next"}
     /\ MessagesOf(wire) # << >>) =>
        /\ rs.hasAssistantMsg
        /\ rs.assistantMsg = LastMessage(wire)
        /\ ex.calls = extractToolCalls(LastMessage(wire))
        /\ pc = "returned" => (rs.result # NilResult /\ rs.result[1] = LastMessage(wire))

\* the stream delivered a message with a tool call and then, together with
\* io.EOF, a message without one: Step has returned the second and ran no tool
C28_Witness ==
    /\ Returned
    /\ rs.provider = "script"
    /\ wire = << ScriptToolMessage, ScriptMessage >>
    /\ rs.result = << ScriptMessage.Message >>
    /\ executed = {}

----------------------------------------------------------------------------
(* The adapter with the reasoning handler of openrouter: chunks whose      *)
(* delta carries reasoning_details                                         *)

\* a chunk whose reasoning detail has visible text
TextDetailChunk ==
    WithDetails(Chunk(0, TRUE, "", EmptyStr, EmptyStr, << >>),
                << Detail("reasoning.text", 0, "", "r1", << "t" >>, EmptyStr, "", "") >>)

\* a chunk whose reasoning detail has no visible text, only encrypted data
EncryptedDetailChunk ==
    WithDetails(Chunk(0, TRUE, "", EmptyStr, EmptyStr, << >>),
                << Detail("reasoning.encrypted", 0, FormatOpenAI, "r1", EmptyStr, EmptyStr,
                          "sig", "") >>)

DetailChunks == { TextDetailChunk, EncryptedDetailChunk, ReasoningChunk, TextChunk }

DetailWires == UNION { [1..n -> DetailChunks] : n \in 0..MaxChunks }

\* a Stream with one of the two reasoning handlers that extract, nothing read
InitDetails ==
    /\ wire \in DetailWires
    /\ wireErr \in BOOLEAN
    /\ ctxCancelled = FALSE
    /\ \E h \in { NewDefaultReasoningHandler(ModelName), NewReasoningHandler(ModelName) } :
         s = NewStream(h, "nil")
    /\ pc = "consume"
    /\ rs = NewRun
    /\ ex = NoExec
    /\ completions = << >>
    /\ toolsCancelled = FALSE
    /\ workers = << >>
    /\ executed = {}
    /\ rets = {}
    /\ cancelAt = Nil
    /\ trace = << >>
    /\ rt = Nil
    /\ callers = << >>
    /\ ss = Nil

SpecDetails == InitDetails /\ [][NextStream]_vars

\* C29: every ThinkingDelta the adapter returns carries non-empty visible
\* text; a chunk whose reasoning is metadata alone produces no ThinkingDelta.
C29_ThinkingDeltaHasText ==
    \A i \in 1..Len(R) :
        (R[i].v.up.type = "delta" /\ R[i].v.up.Delta.kind = "thinking") =>
            R[i].v.up.Delta.Delta # EmptyStr

----------------------------------------------------------------------------
(* Several goroutines calling Next on one Stream *)

Callers == 1..MaxCallers

\* a chunk with fragments of two tool calls: two updates are pending at once
TwoCallsChunk ==
    Chunk(0, TRUE, "", EmptyStr, EmptyStr,
          << ToolCallFragment(0, IdOf(0), "search", << "j" >>),
             ToolCallFragment(1, IdOf(1), "write", << "j" >>) >>)

CallerWires ==
    { << >>, << TextChunk >>, << TwoCallsChunk >>, << TextChunk, TwoCallsChunk >>,
      << ReasoningChunk, TextChunk >>, << UsageChunk, TextChunk >> }

\* a caller outside Next
Idle == [at |-> "idle", up |-> Nil]

InitCallers ==
    /\ wire \in CallerWires
    /\ wireErr \in BOOLEAN
    /\ ctxCancelled = FALSE
    /\ s = StepStream
    /\ pc = "consume"
    /\ rs = NewRun
    /\ ex = NoExec
    /\ completions = << >>
    /\ toolsCancelled = FALSE
    /\ workers = << >>
    /\ executed = {}
    /\ rets = {}
    /\ cancelAt = Nil
    /\ trace = << >>
    /\ rt = Nil
    /\ callers = [c \in Callers |-> Idle]
    /\ ss = Nil

\* the calls of Next made so far: the ones that returned and the ones in progress
CallsOfNext == Len(NextReturns) + Cardinality({c \in Callers : callers[c].at # "idle"})

\* a goroutine calls Next: it is about to lock the mutex
CallerCall(c) ==
    /\ pc = "consume"
    /\ callers[c].at = "idle"
    /\ CallsOfNext < MaxCallerNexts
    /\ callers' = [callers EXCEPT ![c].at = "waiting"]
    /\ UNCHANGED <<rt, ss, wireVars, ctxVars, s, pc, rs, execVars, trace>>

\* s.mu.Lock() with a mutex that admits everyone
CallerLockNoMutex(c) ==
    /\ callers[c].at = "waiting"
    /\ s' = [s EXCEPT !.mu = TRUE]
    /\ callers' = [callers EXCEPT ![c].at = "locked"]
    /\ UNCHANGED <<rt, ss, wireVars, ctxVars, pc, rs, execVars, trace>>

\* s.mu.Lock() returns: the mutex was unlocked (line 79)
CallerLock(c) ==
    /\ callers[c].at = "waiting"
    /\ ~s.mu
    /\ s' = [s EXCEPT !.mu = TRUE]
    /\ callers' = [callers EXCEPT ![c].at = "locked"]
    /\ UNCHANGED <<rt, ss, wireVars, ctxVars, pc, rs, execVars, trace>>

\* the Stream when dequeue has read s.pending[0] and not yet removed it
peeked(r) == [r.s EXCEPT !.pending = << r.up >> \o @]

\* the body of Next under the mutex, one iteration of its loop: it goes
\* round, or returns an error and unlocks, or reaches dequeue and reads
\* the update at the head of s.pending (lines 82-117, 132)
CallerRun(c) ==
    /\ callers[c].at = "locked"
    /\ \E order \in Orders(DOMAIN s.toolCalls) :
         LET r == StreamNext(s, ctxCancelled, order)
         IN CASE r.err = "again" ->
                    /\ s' = r.s
                    /\ UNCHANGED <<callers, trace>>
              [] r.err = "" ->
                    /\ s' = peeked(r)
                    /\ callers' = [callers EXCEPT ![c] = [at |-> "dequeue", up |-> r.up]]
                    /\ UNCHANGED trace
              [] OTHER ->
                    /\ s' = [r.s EXCEPT !.mu = FALSE]
                    /\ callers' = [callers EXCEPT ![c] = Idle]
                    /\ trace' = Append(trace, [e |-> "next", by |-> c,
                                               v |-> [up |-> Nil, err |-> r.err]])
    /\ UNCHANGED <<rt, ss, wireVars, ctxVars, pc, rs, execVars>>

\* s.pending = s.pending[1:], the return of the update and the deferred
\* Unlock (lines 80, 133, 142); slicing an empty s.pending panics
CallerDequeue(c) ==
    /\ callers[c].at = "dequeue"
    /\ IF s.pending = << >>
       THEN /\ s' = [s EXCEPT !.mu = FALSE]
            /\ callers' = [callers EXCEPT ![c].at = "panicked"]
            /\ UNCHANGED trace
       ELSE /\ s' = [s EXCEPT !.pending = Tail(@), !.mu = FALSE]
            /\ callers' = [callers EXCEPT ![c] = Idle]
            /\ trace' = Append(trace, [e |-> "next", by |-> c,
                                       v |-> [up |-> callers[c].up, err |-> ""]])
    /\ UNCHANGED <<rt, ss, wireVars, ctxVars, pc, rs, execVars>>

NextCallers ==
    \/ Cancel
    \/ \E c \in Callers : CallerCall(c)
    \/ \E c \in Callers : CallerLock(c)
    \/ \E c \in Callers : CallerRun(c)
    \/ \E c \in Callers : CallerDequeue(c)

SpecCallers == InitCallers /\ [][NextCallers]_vars

\* the updates Next has returned, in the order the mutex was held
Delivered ==
    LET ok == SelectSeq(NextReturns, LAMBDA ev : ev.v.err = "")
    IN [i \in 1..Len(ok) |-> ok[i].v.up]

\* the Stream after the chunks read so far, nothing taken from s.pending
RECURSIVE Produce(_, _)
Produce(st, chunks) ==
    IF chunks = << >> THEN st ELSE Produce(processChunk(st, Head(chunks)), Tail(chunks))

Produced == Produce(StepStream, SubSeq(wire, 1, s.pos)).pending

\* the callers inside the body of Next
Holders == {c \in Callers : callers[c].at \in {"locked", "dequeue"}}

\* C30: concurrent callers of Next on one Stream are serialized. At most one
\* caller is inside the body of Next; the updates returned so far, in the
\* order of the calls, followed by the pending ones are the deltas of the
\* chunks read so far, each once and in order, followed by the one
\* MessageUpdate when the stream has been finalized.
C30_CallersSerialized ==
    LET all == Delivered \o s.pending
        deltas == SelectSeq(all, LAMBDA up : up.type = "delta")
    IN /\ Cardinality(Holders) <= 1
       /\ deltas = Produced
       /\ all = IF s.done THEN Append(deltas, all[Len(all)]) ELSE deltas
       /\ s.done => (all # << >> /\ all[Len(all)].type = "message")
       /\ \A c \in Callers : callers[c].at # "panicked"

\* two chunks, three deltas and the message: both callers were given updates
\* and one of them waits for the mutex the other holds
C30_Witness ==
    /\ wire = << TextChunk, TwoCallsChunk >>
    /\ s.done
    /\ Len(Delivered) = 3
    /\ Len(s.pending) = 1
    /\ \A c \in Callers : \E i \in 1..Len(NextReturns) :
           NextReturns[i].by = c /\ NextReturns[i].v.err = ""
    /\ \E c, d \in Callers : callers[c].at = "dequeue" /\ callers[d].at = "waiting"

----------------------------------------------------------------------------
(* The reasoning handler of openrouter fed entry by entry: ExtractThinking *)
(* on deltas of reasoning_details, FlushThinking in between                *)

\* the reasoning_details entries of the deltas: text without and with an
\* embedded signature, a summary, a summary that has an id and a format and
\* no text, encrypted data, an entry of a type the handler does not know
Entries ==
    { Detail("reasoning.text", 0, FormatClaude, "r1", << "t" >>, EmptyStr, "", ""),
      Detail("reasoning.text", 0, "", "", << "u" >>, EmptyStr, "", "sig"),
      Detail("reasoning.summary", 0, FormatOpenAI, "r2", EmptyStr, << "s" >>, "", ""),
      Detail("reasoning.summary", 0, "google-gemini-v1", "r3", EmptyStr, EmptyStr, "", ""),
      Detail("reasoning.encrypted", 0, FormatOpenAI, "", EmptyStr, EmptyStr, "enc", ""),
      Detail("reasoning.other", 0, "", "r4", << "x" >>, EmptyStr, "", "") }

\* a new handler, nothing fed and nothing flushed; fed are the entries since
\* the last flush, flushes what each flush was given and what it returned
InitEntries ==
    /\ NoStep
    /\ callers = << >>
    /\ ss = Nil
    /\ rt = [h |-> NewReasoningHandler(ModelName), fed |-> << >>, flushes |-> << >>]

\* the entries given to the flushes so far
RECURSIVE SumLen(_)
SumLen(seqs) == IF seqs = << >> THEN 0 ELSE Len(Head(seqs).fed) + SumLen(Tail(seqs))

\* h.ExtractThinking on a delta whose reasoning_details has come from JSON
EntriesExtract ==
    /\ rt # Nil
    /\ \E n \in 1..(MaxEntries - Len(rt.fed) - SumLen(rt.flushes)) :
       \E details \in [1..n -> Entries] :
         /\ rt' = [rt EXCEPT !.h = ExtractThinking(rt.h, DeltaMap(Nil, GoAnySlice(details))).h,
                             !.fed = @ \o details]
    /\ UNCHANGED <<stepVars, callers, ss>>

\* h.FlushThinking()
EntriesFlush ==
    /\ rt # Nil
    /\ Len(rt.flushes) < MaxFlushes
    /\ LET f == FlushThinking(rt.h)
       IN rt' = [rt EXCEPT !.h = f.h, !.fed = << >>,
                           !.flushes = Append(@, [fed |-> rt.fed, parts |-> f.parts])]
    /\ UNCHANGED <<stepVars, callers, ss>>

NextEntries ==
    \/ EntriesExtract
    \/ EntriesFlush

SpecEntries == InitEntries /\ [][NextEntries]_vars

\* an entry that closes the block it is in
Closes(e) ==
    \/ e.type = "reasoning.encrypted"
    \/ e.type = "reasoning.text" /\ e.signature # ""

Known(e) == e.type \in {"reasoning.text", "reasoning.summary", "reasoning.encrypted"}

\* the visible text of an entry
VisibleText(e) ==
    CASE e.type = "reasoning.text" -> e.text
      [] e.type = "reasoning.summary" -> e.summary
      [] OTHER -> EmptyStr

\* the last non-empty value of a field among the entries, "" if there is none
RECURSIVE LastGiven(_, _)
LastGiven(es, field) ==
    IF es = << >> THEN ""
    ELSE IF es[Len(es)][field] # "" THEN es[Len(es)][field]
    ELSE LastGiven(SubSeq(es, 1, Len(es) - 1), field)

\* the ThinkingPart of a block of entries with the given signature
PartOfBlock(block, signature) ==
    LET known == SelectSeq(block, Known)
    IN ThinkingPart(LastGiven(known, "id"),
                    Concat([i \in 1..Len(known) |-> VisibleText(known[i])]),
                    signature, LastGiven(known, "format"), ModelName)

\* the parts of the entries es, block by block; open are the entries of the
\* block not yet closed
RECURSIVE BlockParts(_, _)
BlockParts(es, open) ==
    IF es = << >>
    THEN IF PartOfBlock(open, "").Thinking # EmptyStr THEN << PartOfBlock(open, "") >>
         ELSE << >>
    ELSE IF Closes(Head(es))
    THEN << PartOfBlock(Append(open, Head(es)),
                        IF Head(es).type = "reasoning.encrypted" THEN Head(es).data
                        ELSE Head(es).signature) >>
         \o BlockParts(Tail(es), << >>)
    ELSE BlockParts(Tail(es), Append(open, Head(es)))

\* C31: the first FlushThinking of a handler returns one ThinkingPart per
\* block of the entries fed, in the order fed: text and summary entries
\* accumulate, an encrypted entry or a text entry with a signature closes the
\* part with that signature and the format, an open part is returned without
\* signature when it has text and not returned when it has none.
C31_OnePartPerBlock ==
    (rt # Nil /\ Len(rt.flushes) > 0) =>
        rt.flushes[1].parts = BlockParts(rt.flushes[1].fed, << >>)

\* text, then encrypted data, then a summary: a signed part and an open one
C31_Witness ==
    /\ rt # Nil
    /\ Len(rt.flushes) > 0
    /\ Len(rt.flushes[1].fed) = 3
    /\ rt.flushes[1].fed[1].type = "reasoning.text"
    /\ rt.flushes[1].fed[2].type = "reasoning.encrypted"
    /\ rt.flushes[1].fed[3].summary = << "s" >>
    /\ Len(rt.flushes[1].parts) = 2
    /\ rt.flushes[1].parts[1].Signature = "enc"
    /\ rt.flushes[1].parts[2].Signature = ""

\* C32: FlushThinking leaves the handler with no accumulated state: a flush
\* right after a flush returns no parts, and the parts of a later flush are
\* those of the entries fed since the flush before it, with no id, format,
\* signature or text of an entry fed earlier.
C32_FlushResets ==
    rt # Nil =>
        \A k \in 2..Len(rt.flushes) :
            rt.flushes[k].parts = BlockParts(rt.flushes[k].fed, << >>)

----------------------------------------------------------------------------
(* The stop reason and the usage of the finalized message *)

StopChunk == Chunk(1, TRUE, "stop", EmptyStr, EmptyStr, << >>)

ToolCallsChunk == Chunk(0, TRUE, "tool_calls", EmptyStr, EmptyStr, << >>)

FilterChunk == Chunk(0, TRUE, "content_filter", EmptyStr, EmptyStr, << >>)

\* a chunk with text and a usage snapshot with cached tokens
CachedChunk == WithCached(Chunk(3, TRUE, "", EmptyStr, << "a" >>, << >>), 1)

\* a snapshot whose count of cached tokens is below zero
NegCachedChunk == WithCached(Chunk(4, FALSE, "", EmptyStr, EmptyStr, << >>), -1)

FinishChunks ==
    { TextChunk, StopChunk, ToolCallsChunk, LengthChunk, FilterChunk, UsageChunk, CachedChunk,
      NegCachedChunk }

FinishWires == UNION { [1..n -> FinishChunks] : n \in 0..MaxChunks }

InitFinish ==
    /\ wire \in FinishWires
    /\ wireErr \in BOOLEAN
    /\ ctxCancelled = FALSE
    /\ s = StepStream
    /\ pc = "consume"
    /\ rs = NewRun
    /\ ex = NoExec
    /\ completions = << >>
    /\ toolsCancelled = FALSE
    /\ workers = << >>
    /\ executed = {}
    /\ rets = {}
    /\ cancelAt = Nil
    /\ trace = << >>
    /\ rt = Nil
    /\ callers = << >>
    /\ ss = Nil

SpecFinish == InitFinish /\ [][NextStream]_vars

\* the chunks of the wire with a first choice that has a finish reason
WithFinish == SelectSeq(wire, LAMBDA c : c.choices /\ c.finish # "")

\* the stop reason the wire calls for
WireStopReason ==
    IF WithFinish = << >> THEN "stop"
    ELSE LET last == WithFinish[Len(WithFinish)].finish
         IN CASE last = "length" -> "length"
              [] last = "tool_calls" -> "tool_use"
              [] OTHER -> "stop"

\* C33: the StopReason of the finalized message is the mapping of the last
\* finish reason on the wire (stop, length, tool_calls to tool_use, anything
\* else to stop), and stop when no chunk had one.
C33_StopReasonOfLastFinish ==
    \A i \in 1..Len(R) :
        R[i].v.up.type = "message" => R[i].v.up.Message.StopReason = WireStopReason

\* a length finish, then a text chunk without finish reason: the message
\* says length; and a finish reason the mapping does not know gave stop
C33_Witness ==
    /\ \E i \in 1..Len(R) : R[i].v.up.type = "message"
    /\ \/ wire = << LengthChunk, TextChunk >>
       \/ wire = << ToolCallsChunk, FilterChunk >>

\* the chunks of the wire that carry usage
WithUsage == SelectSeq(wire, LAMBDA c : c.usage > 0)

\* the cached tokens a snapshot reports for a chunk: its count when there
\* are any, else none
CachedOf(chunk) == IF chunk.cached > 0 THEN chunk.cached ELSE 0

\* C34: the usage of the finalized message is the snapshot of the last chunk
\* that carried usage, with nothing of an earlier snapshot, also when that
\* chunk has no choices; there is none when no chunk carried usage.
C34_UsageOfLastSnapshot ==
    \A i \in 1..Len(R) :
        R[i].v.up.type = "message" =>
            LET msg == R[i].v.up.Message
            IN IF WithUsage = << >>
               THEN msg.Usage = 0 /\ msg.Cached = 0
               ELSE /\ msg.Usage = WithUsage[Len(WithUsage)].usage
                    /\ msg.Cached = CachedOf(WithUsage[Len(WithUsage)])

\* a snapshot with cached tokens, then one without choices and without
\* cached tokens, or with a count of them below zero: the message has the
\* second
C34_Witness ==
    \/ /\ wire = << CachedChunk, UsageChunk >>
       /\ \E i \in 1..Len(R) :
             /\ R[i].v.up.type = "message"
             /\ R[i].v.up.Message.Usage = 2
             /\ R[i].v.up.Message.Cached = 0
    \/ /\ wire = << CachedChunk, NegCachedChunk >>
       /\ \E i \in 1..Len(R) :
             /\ R[i].v.up.type = "message"
             /\ R[i].v.up.Message.Usage = 4
             /\ R[i].v.up.Message.Cached = 0

----------------------------------------------------------------------------
(* executeTools under fair scheduling *)

InitToolsFair == InitTools

\* the steps of the goroutine of Step
MainStep ==
    \/ LoopCancelled
    \/ LoopParallel
    \/ LoopSerial
    \/ RecvOneDone
    \/ RecvOneCompletion
    \/ SerialInterrupted
    \/ SerialStart
    \/ FlushMessage
    \/ FlushEnd
    \/ InlineCheck
    \/ InlineCall
    \/ EnsureResults
    \/ ExecuteToolsReturn
    \/ StepStatus
    \/ StepReturn

\* the steps of the goroutines of the parallel calls up to tool.Execute
WorkerStep ==
    \E i \in DOMAIN workers : WorkerStart(i) \/ WorkerExecCheck(i) \/ WorkerExecCall(i)

\* the Execute of some parallel call is in progress
Executing == \E i \in DOMAIN workers : workers[i] = "running"

\* while ctx is live, the Execute of a parallel tool returns or ctx is
\* cancelled with one in progress
ReturnsOrCancelled ==
    /\ ~ctxCancelled
    /\ \/ \E i \in DOMAIN workers : WorkerExecEnd(i)
       \/ Executing /\ Cancel

\* the goroutines are scheduled, the callbacks return, the Execute of a
\* non-parallel tool returns, and the Execute of a parallel tool does not
\* stay in progress for ever with ctx live: it returns or ctx is cancelled.
\* Nothing is assumed of the Execute of a parallel tool once ctx is cancelled.
SpecToolsFair ==
    /\ InitToolsFair
    /\ [][NextTools]_vars
    /\ WF_vars(MainStep)
    /\ WF_vars(InlineEnd)
    /\ WF_vars(WorkerStep)
    /\ WF_vars(ReturnsOrCancelled)

\* C35: under that scheduling Step returns: executeTools does not wait for
\* ever on the completions channel, neither in the wait of a non-parallel
\* call nor after the loop, and once the context is cancelled it returns
\* with parallel tools still running.
C35_ToolsTerminate == <>Returned

\* Step has returned after a cancellation while the Execute of a parallel
\* call is still in progress
C35_Witness ==
    /\ Returned
    /\ ctxCancelled
    /\ \E i \in DOMAIN workers : workers[i] = "running"

----------------------------------------------------------------------------
(* Next called with a context of its own each time *)

InitSticky ==
    /\ wire \in CallerWires
    /\ wireErr \in BOOLEAN
    /\ ctxCancelled = FALSE
    /\ s = StepStream
    /\ pc = "consume"
    /\ rs = NewRun
    /\ ex = NoExec
    /\ completions = << >>
    /\ toolsCancelled = FALSE
    /\ workers = << >>
    /\ executed = {}
    /\ rets = {}
    /\ cancelAt = Nil
    /\ trace = << >>
    /\ rt = Nil
    /\ callers = << >>
    /\ ss = Nil

\* one call of Stream.Next(ctx) with a context that is done or not, whatever
\* the contexts of the calls before; a call that loops reads one chunk per
\* step, with its context as it is then
ConsumerNextCtx ==
    /\ pc = "consume"
    /\ Len(SelectSeq(trace, IsTerminal)) <= MaxNextAfterEnd
    /\ \E ctxDone \in BOOLEAN, order \in Orders(DOMAIN s.toolCalls) :
         LET r == StreamNext(s, ctxDone, order)
         IN /\ s' = r.s
            /\ trace' = IF r.err = "again" THEN trace
                         ELSE Append(trace, [e |-> "next", by |-> "consumer",
                                             v |-> [up |-> r.up, err |-> r.err,
                                                    ctxDone |-> ctxDone]])
    /\ UNCHANGED <<rt, ss, callers, wireVars, ctxVars, pc, rs, execVars>>

NextSticky == ConsumerNextCtx

SpecSticky == InitSticky /\ [][NextSticky]_vars

\* C36: once Next has returned an error other than end-of-stream, every later
\* call of Next, whatever its context, returns that error and no update: no
\* MessageUpdate and no end-of-stream follows.
C36_ErrorIsSticky ==
    \A i, j \in 1..Len(R) :
        (i < j /\ R[i].v.err \notin {"", "EOF"}) =>
            /\ R[j].v.err = R[i].v.err
            /\ R[j].v.up = Nil

\* a cancellation error after the first delta, then a call with a context
\* that is not done; and a transport error, then a call with a done context
C36_Witness ==
    \E i, j \in 1..Len(R) :
        /\ i < j
        /\ \/ R[i].v.err = "context canceled" /\ ~R[j].v.ctxDone /\ i > 1
           \/ R[i].v.err = "transport" /\ R[j].v.ctxDone

----------------------------------------------------------------------------
(* runStep and the deferred Close of the provider stream *)

\* an update of a type handleProviderUpdate does not know: a type of another
\* package that embeds one of the two update types
ScriptUnknown == [type |-> "unknown"]

\* scripts with such an update: alone with io.EOF, before io.EOF, before and
\* after a message
UnknownWires ==
    { << ScriptUnknown >>, << ScriptUnknown, Nil >>, << ScriptDelta, ScriptUnknown >>,
      << ScriptUnknown, ScriptMessage >>, << ScriptToolMessage, ScriptUnknown, Nil >> }

\* Step is called, with any provider; the scripted one may deliver an update
\* of an unknown type
InitDefer ==
    /\ rs \in Requests
    /\ wire \in WiresOf(rs.provider) \cup (IF rs.provider = "script" THEN UnknownWires ELSE {})
    /\ wireErr \in (IF rs.provider \in {"chat", "script"} THEN BOOLEAN ELSE {FALSE})
    /\ ctxCancelled = FALSE
    /\ s = StepStream
    /\ pc = "open"
    /\ ex = NoExec
    /\ completions = << >>
    /\ toolsCancelled = FALSE
    /\ workers = << >>
    /\ executed = {}
    /\ rets = {}
    /\ cancelAt = Nil
    /\ trace = << >>
    /\ rt = Nil
    /\ callers = << >>
    /\ ss = Nil

SpecDefer == InitDefer /\ [][Next]_vars

\* req.Provider.Stream returned a stream
Opened == rs.provider \in {"chat", "script"}

\* C37: when Step has opened a provider stream, the stream's Close is called
\* once, by the return of Step, whatever the path: not before the last Next
\* and the tools, not twice; when the stream was not opened, never.
C37_ClosedOnceAtReturn ==
    /\ rs.closes = (IF Opened /\ Returned THEN 1 ELSE 0)
    /\ s.stream = (IF Opened /\ Returned THEN "closed" ELSE "open")

\* Step has returned after a tool ran, the stream closed once
C37_Witness ==
    /\ Returned
    /\ executed # {}
    /\ rs.closes = 1
    /\ s.stream = "closed"

----------------------------------------------------------------------------
(* StepStreamed: the stepStream, its run goroutine, the goroutines of the  *)
(* parallel tools and the consumer of the events                           *)

EventBuffer == 16   \* make(chan StepEvent, 16)

StepEvent(type, callID) == [Type |-> type, ToolCallID |-> callID]

ErrToolNotFound == "step: tool not found"

\* interruptedToolResult of tool_executor.go
streamInterruptedToolResult(call) ==
    [CallID |-> call.CallID, Name |-> call.Name, IsError |-> TRUE,
     Text |-> "user interrupted the tool call"]

\* calls[i] as an indexedCall: idx is the index of Go
indexedCall(calls, i) == [idx |-> i - 1, call |-> calls[i]]

\* the calls of executeTools' first loop that go to serialCalls (parallel =
\* FALSE) or to parallelCalls (lines 27-34)
splitCalls(calls, parallel) ==
    LET own == SelectSeq([i \in 1..Len(calls) |-> i],
                         LAMBDA i : IsParallel(calls[i]) = parallel)
    IN [k \in 1..Len(own) |-> indexedCall(calls, own[k])]

\* what the provider of the streamed step will do: GenerateStream fails or
\* not, the events its stream returns before it ends, how it ends, what
\* Result answers, and the tool calls of the message
StreamProviders ==
    { [open |-> o, events |-> n, end |-> e, result |-> r, calls |-> c] :
        o \in {"ok", "fail"}, n \in {0, 1, EventBuffer}, e \in {"EOF", "error"},
        r \in {"ok", "error"},
        c \in { << >>,
                << ToolCallPart("c0", "search", << "j" >>), ToolCallPart("c1", "write", << "j" >>) >>,
                << ToolCallPart("c0", "ghost", << "j" >>), ToolCallPart("c1", "search", << "j" >>) >> } }

\* StepStreamed has returned the stepStream and started run (lines 37-46)
NewStepStream(provider) ==
    [provider |-> provider, ctxDone |-> FALSE, events |-> << >>, eventsClosed |-> FALSE,
     done |-> FALSE, hasResult |-> FALSE, resultErr |-> << >>, cancelled |-> FALSE,
     pc |-> "start", emitting |-> Nil, delivered |-> 0, streamClosed |-> FALSE,
     serialCalls |-> << >>, parallelCalls |-> << >>, k |-> 0, results |-> << >>,
     out |-> << >>, workers |-> << >>, started |-> << >>,
     read |-> 0, eof |-> FALSE, closing |-> FALSE, closed |-> FALSE, gotResult |-> FALSE]

InitStepStream ==
    /\ NoStep
    /\ rt = Nil
    /\ callers = << >>
    /\ \E provider \in StreamProviders : ss = NewStepStream(provider)

\* addError (lines 149-160): the errors joined so far
addError(x, err) == IF err = "" THEN x ELSE [x EXCEPT !.resultErr = Append(@, err)]

\* the goroutine of run enters emit with the event; `then` is where run goes
\* on after it
beginEmit(x, ev, then) == [x EXCEPT !.emitting = ev, !.pc = then]

\* the select of emit without the case of s.ctx.Done()
RunEmitNoDone ==
    /\ ss # Nil
    /\ ss.emitting # Nil
    /\ Len(ss.events) < EventBuffer
    /\ ss' = [ss EXCEPT !.events = Append(@, ss.emitting), !.emitting = Nil]
    /\ UNCHANGED <<stepVars, rt, callers>>

\* the select of emit in the goroutine of run (lines 141-147): the context
\* is done, or the channel takes the event
RunEmit ==
    /\ ss # Nil
    /\ ss.emitting # Nil
    /\ \/ /\ ss.ctxDone
          /\ ss' = [ss EXCEPT !.emitting = Nil]
       \/ /\ Len(ss.events) < EventBuffer
          /\ ss' = [ss EXCEPT !.events = Append(@, ss.emitting), !.emitting = Nil]
    /\ UNCHANGED <<stepVars, rt, callers>>

\* run up to GenerateStream (lines 81-93)
RunStart ==
    /\ ss # Nil
    /\ ss.pc = "start"
    /\ ss' = beginEmit(ss, StepEvent("start", ""), "open")
    /\ UNCHANGED <<stepVars, rt, callers>>

RunOpen ==
    /\ ss # Nil
    /\ ss.pc = "open"
    /\ ss.emitting = Nil
    /\ ss' = IF ss.provider.open = "fail"
             THEN [addError(ss, "open failed") EXCEPT !.pc = "cancel"]
             ELSE [ss EXCEPT !.pc = "next"]
    /\ UNCHANGED <<stepVars, rt, callers>>

\* stream.Next(s.ctx) returns an event, run emits it (lines 97, 105)
RunNextEvent ==
    /\ ss # Nil
    /\ ss.pc = "next"
    /\ ss.emitting = Nil
    /\ ss.delivered < ss.provider.events
    /\ ss' = [beginEmit(ss, StepEvent("assistant", ""), "next") EXCEPT !.delivered = @ + 1]
    /\ UNCHANGED <<stepVars, rt, callers>>

\* stream.Next(s.ctx) returns io.EOF (lines 99-101)
RunNextEOF ==
    /\ ss # Nil
    /\ ss.pc = "next"
    /\ ss.emitting = Nil
    /\ ss.delivered = ss.provider.events
    /\ ss.provider.end = "EOF"
    /\ ss' = [ss EXCEPT !.pc = "result"]
    /\ UNCHANGED <<stepVars, rt, callers>>

\* stream.Next(s.ctx) returns another error: the one of the transport, or
\* the one of the context when it is done (lines 102-103)
RunNextError ==
    /\ ss # Nil
    /\ ss.pc = "next"
    /\ ss.emitting = Nil
    /\ \/ ss.ctxDone /\ ss' = [addError(ss, "context canceled") EXCEPT !.pc = "deferred"]
       \/ /\ ss.delivered = ss.provider.events
          /\ ss.provider.end = "error"
          /\ ss' = [addError(ss, "transport") EXCEPT !.pc = "deferred"]
    /\ UNCHANGED <<stepVars, rt, callers>>

\* stream.Result() and the first loop of executeTools (lines 108-117, 15-37)
RunResult ==
    /\ ss # Nil
    /\ ss.pc = "result"
    /\ ss' = IF ss.provider.result = "error"
             THEN [addError(ss, "stream not finished") EXCEPT !.pc = "deferred"]
             ELSE IF Len(ss.provider.calls) = 0
             THEN [ss EXCEPT !.pc = "finish"]
             ELSE [ss EXCEPT !.serialCalls = splitCalls(ss.provider.calls, FALSE),
                             !.parallelCalls = splitCalls(ss.provider.calls, TRUE),
                             !.results = [i \in 1..Len(ss.provider.calls) |-> Nil],
                             !.pc = "serial"]
    /\ UNCHANGED <<stepVars, rt, callers>>

\* the serial call the first phase is at
SerialCall == ss.serialCalls[ss.k + 1]

\* phase 1 with the context done: the call is interrupted (lines 41-45)
RunSerialInterrupted ==
    /\ ss # Nil
    /\ ss.pc = "serial"
    /\ ss.emitting = Nil
    /\ ss.k < Len(ss.serialCalls)
    /\ ss.ctxDone
    /\ ss' = [ss EXCEPT !.cancelled = TRUE, !.k = @ + 1,
                        !.results[SerialCall.idx + 1] =
                            streamInterruptedToolResult(SerialCall.call)]
    /\ UNCHANGED <<stepVars, rt, callers>>

\* phase 1: executeSingleTool up to the event before tool.Execute (lines
\* 46, 69-75)
RunSerialStart ==
    /\ ss # Nil
    /\ ss.pc = "serial"
    /\ ss.emitting = Nil
    /\ ss.k < Len(ss.serialCalls)
    /\ ~ss.ctxDone
    /\ ss' = IF SerialCall.call.Name \notin ToolNames
             THEN [addError(ss, ErrToolNotFound) EXCEPT
                       !.k = @ + 1,
                       !.results[SerialCall.idx + 1] = toolNotFoundResult(SerialCall.call)]
             ELSE beginEmit(ss, StepEvent("tool_exec_start", SerialCall.call.CallID),
                            "serialCall")
    /\ UNCHANGED <<stepVars, rt, callers>>

\* tool.Execute of the serial call is called (line 78)
RunSerialExecute ==
    /\ ss # Nil
    /\ ss.pc = "serialCall"
    /\ ss.emitting = Nil
    /\ ss' = [ss EXCEPT !.started = Append(@, SerialCall.idx), !.pc = "serialRunning"]
    /\ UNCHANGED <<stepVars, rt, callers>>

\* the result of a call whose Execute returned ret (lines 80-82)
executed1(call, ret) ==
    IF ret.err # "" THEN errorToolResult(call, ret.err) ELSE ret.res

\* tool.Execute of the serial call returns (lines 78-85)
RunSerialReturn ==
    /\ ss # Nil
    /\ ss.pc = "serialRunning"
    /\ \E ret \in ExecuteReturns :
         ss' = [beginEmit(ss, StepEvent("tool_exec_end", SerialCall.call.CallID), "serial")
                    EXCEPT !.k = @ + 1,
                           !.results[SerialCall.idx + 1] = executed1(SerialCall.call, ret)]
    /\ UNCHANGED <<stepVars, rt, callers>>

\* phase 2 begins (lines 50-59, 94-109): every parallel call is interrupted,
\* or one goroutine per parallel call is started
RunParallel ==
    /\ ss # Nil
    /\ ss.pc = "serial"
    /\ ss.emitting = Nil
    /\ ss.k = Len(ss.serialCalls)
    /\ ss' = IF ss.cancelled \/ ss.ctxDone
             THEN [ss EXCEPT !.cancelled = TRUE, !.pc = "finish",
                             !.results = [i \in DOMAIN @ |->
                                 IF \E j \in DOMAIN ss.parallelCalls :
                                        ss.parallelCalls[j].idx + 1 = i
                                 THEN streamInterruptedToolResult(ss.provider.calls[i])
                                 ELSE @[i]]]
             ELSE [ss EXCEPT !.pc = "wait",
                             !.workers = [j \in DOMAIN ss.parallelCalls |->
                                             [at |-> "spawned", emitting |-> Nil]]]
    /\ UNCHANGED <<stepVars, rt, callers>>

\* the goroutine of the parallel call j: the select on s.ctx.Done() and
\* executeSingleTool up to the event before tool.Execute (lines 99-106, 69-75)
WorkerBegin(j) ==
    /\ ss # Nil
    /\ j \in DOMAIN ss.workers
    /\ ss.workers[j].at = "spawned"
    /\ LET ic == ss.parallelCalls[j]
       IN ss' = IF ss.ctxDone
                THEN [ss EXCEPT !.workers[j].at = "exited",
                                !.out = Append(@, [idx |-> ic.idx,
                                                   res |-> streamInterruptedToolResult(ic.call)])]
                ELSE [ss EXCEPT !.workers[j] =
                          [at |-> "call",
                           emitting |-> StepEvent("tool_exec_start", ic.call.CallID)]]
    /\ UNCHANGED <<stepVars, rt, callers>>

\* the select of emit in the goroutine of a parallel call (lines 141-147)
WorkerEmit(j) ==
    /\ ss # Nil
    /\ j \in DOMAIN ss.workers
    /\ ss.workers[j].emitting # Nil
    /\ \/ /\ ss.ctxDone
          /\ ss' = [ss EXCEPT !.workers[j].emitting = Nil]
       \/ /\ Len(ss.events) < EventBuffer
          /\ ss' = [ss EXCEPT !.events = Append(@, ss.workers[j].emitting),
                              !.workers[j].emitting = Nil]
    /\ UNCHANGED <<stepVars, rt, callers>>

\* tool.Execute of the parallel call is called (line 78)
WorkerExecute(j) ==
    /\ ss # Nil
    /\ j \in DOMAIN ss.workers
    /\ ss.workers[j].at = "call"
    /\ ss.workers[j].emitting = Nil
    /\ ss' = [ss EXCEPT !.workers[j].at = "running",
                        !.started = Append(@, ss.parallelCalls[j].idx)]
    /\ UNCHANGED <<stepVars, rt, callers>>

\* tool.Execute of the parallel call returns (lines 78-84)
WorkerReturn(j) ==
    /\ ss # Nil
    /\ j \in DOMAIN ss.workers
    /\ ss.workers[j].at = "running"
    /\ LET ic == ss.parallelCalls[j]
       IN \E ret \in ExecuteReturns :
            ss' = [ss EXCEPT !.workers[j] =
                      [at |-> "send", res |-> executed1(ic.call, ret),
                       emitting |-> StepEvent("tool_exec_end", ic.call.CallID)]]
    /\ UNCHANGED <<stepVars, rt, callers>>

\* the result goes to out and the goroutine ends (line 107)
WorkerSend(j) ==
    /\ ss # Nil
    /\ j \in DOMAIN ss.workers
    /\ ss.workers[j].at = "send"
    /\ ss.workers[j].emitting = Nil
    /\ ss' = [ss EXCEPT !.workers[j] = [at |-> "exited", emitting |-> Nil],
                        !.out = Append(@, [idx |-> ss.parallelCalls[j].idx,
                                           res |-> ss.workers[j].res])]
    /\ UNCHANGED <<stepVars, rt, callers>>

\* results after the loop over out (lines 114-116)
RECURSIVE drained(_, _)
drained(results, out) ==
    IF out = << >> THEN results
    ELSE drained([results EXCEPT ![Head(out).idx + 1] = Head(out).res], Tail(out))

\* wg.Wait() returns, out is read (lines 111-116, 60-65)
RunWait ==
    /\ ss # Nil
    /\ ss.pc = "wait"
    /\ \A j \in DOMAIN ss.workers : ss.workers[j].at = "exited"
    /\ ss' = [ss EXCEPT !.results = drained(@, ss.out), !.out = << >>,
                        !.cancelled = ss.ctxDone, !.pc = "finish"]
    /\ UNCHANGED <<stepVars, rt, callers>>

\* the result of the step and finish (lines 119-128, 131-138)
RunFinish ==
    /\ ss # Nil
    /\ ss.pc = "finish"
    /\ ss' = [beginEmit(ss, StepEvent("end", ""), "deferred") EXCEPT
                  !.hasResult = TRUE, !.cancelled = @ \/ ss.ctxDone]
    /\ UNCHANGED <<stepVars, rt, callers>>

\* run returns after the provider's stream was opened: the first deferred
\* call is stream.Close() (line 94). The deferred calls are a step each: the
\* goroutine of the consumer can run between them.
RunCloseStream ==
    /\ ss # Nil
    /\ ss.pc = "deferred"
    /\ ss.emitting = Nil
    /\ ss' = [ss EXCEPT !.streamClosed = TRUE, !.pc = "cancel"]
    /\ UNCHANGED <<stepVars, rt, callers>>

\* the deferred s.cancel() (line 79), the first one when GenerateStream failed
RunCancel ==
    /\ ss # Nil
    /\ ss.pc = "cancel"
    /\ ss' = [ss EXCEPT !.ctxDone = TRUE, !.pc = "done"]
    /\ UNCHANGED <<stepVars, rt, callers>>

\* the deferred close(s.done) (line 78): Result and Close can return
RunCloseDone ==
    /\ ss # Nil
    /\ ss.pc = "done"
    /\ ss' = [ss EXCEPT !.done = TRUE, !.pc = "events"]
    /\ UNCHANGED <<stepVars, rt, callers>>

\* the deferred close(s.events) (line 77): the goroutine of run has ended
RunExit ==
    /\ ss # Nil
    /\ ss.pc = "events"
    /\ ss' = [ss EXCEPT !.eventsClosed = TRUE, !.pc = "exited"]
    /\ UNCHANGED <<stepVars, rt, callers>>

\* Next of the consumer, with a context that is not done (lines 49-59)
StepStreamNext ==
    /\ ss # Nil
    /\ ~ss.eof
    /\ \/ /\ Len(ss.events) > 0
          /\ ss' = [ss EXCEPT !.events = Tail(@), !.read = @ + 1]
       \/ /\ Len(ss.events) = 0
          /\ ss.eventsClosed
          /\ ss' = [ss EXCEPT !.eof = TRUE]
    /\ UNCHANGED <<stepVars, rt, callers>>

\* Cancel (lines 66-68)
StepStreamCancel ==
    /\ ss # Nil
    /\ ~ss.ctxDone
    /\ ss' = [ss EXCEPT !.ctxDone = TRUE]
    /\ UNCHANGED <<stepVars, rt, callers>>

\* Close up to the wait for s.done (lines 70-72)
StepStreamClose ==
    /\ ss # Nil
    /\ ~ss.closing
    /\ ss' = [ss EXCEPT !.ctxDone = TRUE, !.closing = TRUE]
    /\ UNCHANGED <<stepVars, rt, callers>>

\* Close returns (lines 72-73)
StepStreamCloseReturn ==
    /\ ss # Nil
    /\ ss.closing
    /\ ~ss.closed
    /\ ss.done
    /\ ss' = [ss EXCEPT !.closed = TRUE]
    /\ UNCHANGED <<stepVars, rt, callers>>

\* Result returns (lines 61-64)
StepStreamResult ==
    /\ ss # Nil
    /\ ~ss.gotResult
    /\ ss.done
    /\ ss' = [ss EXCEPT !.gotResult = TRUE]
    /\ UNCHANGED <<stepVars, rt, callers>>

\* the steps of the goroutine of run that call neither the provider's Next
\* nor a tool's Execute
RunStep ==
    \/ RunEmit
    \/ RunStart
    \/ RunOpen
    \/ RunResult
    \/ RunSerialInterrupted
    \/ RunSerialStart
    \/ RunSerialExecute
    \/ RunParallel
    \/ RunWait
    \/ RunFinish
    \/ RunCloseStream
    \/ RunCancel
    \/ RunCloseDone
    \/ RunExit

\* the returns of the provider's Next
ProviderReturn ==
    \/ RunNextEvent
    \/ RunNextEOF
    \/ RunNextError

\* the steps of the goroutines of the parallel calls but the returns of Execute
WorkerRun ==
    \E j \in DOMAIN ss.workers : WorkerBegin(j) \/ WorkerEmit(j) \/ WorkerExecute(j) \/ WorkerSend(j)

\* the returns of the tools' Execute
ExecuteReturn ==
    \/ RunSerialReturn
    \/ \E j \in DOMAIN ss.workers : WorkerReturn(j)

ConsumerStep ==
    \/ StepStreamNext
    \/ StepStreamCancel
    \/ StepStreamClose
    \/ StepStreamCloseReturn
    \/ StepStreamResult

NextStepStream ==
    \/ RunStep
    \/ ProviderReturn
    \/ WorkerRun
    \/ ExecuteReturn
    \/ ConsumerStep

\* the goroutines are scheduled; the provider's Next and the tools' Execute
\* return once the context of the step is done; the consumer may do nothing
SpecStepStream ==
    /\ InitStepStream
    /\ [][NextStepStream]_vars
    /\ WF_vars(RunStep)
    /\ WF_vars(WorkerRun)
    /\ WF_vars(ss.ctxDone /\ ProviderReturn)
    /\ WF_vars(ss.ctxDone /\ ExecuteReturn)

\* C38: the calls of the streamed step begin to execute in the order of the
\* list: no call begins before a call at an earlier position has begun.
C38_StartInOrder ==
    ss # Nil =>
        /\ \A a, b \in 1..Len(ss.started) : a < b => ss.started[a] < ss.started[b]
        /\ \A a \in 1..Len(ss.started) : \A i \in 0..(ss.started[a] - 1) :
               ss.provider.calls[i + 1].Name \in ToolNames =>
                   \E b \in 1..a : ss.started[b] = i

\* C39: once the context of the step is done, by Cancel or by Close, the
\* goroutine of run ends: s.done and s.events are closed, so Result and Close
\* return and Next returns io.EOF after the events left in the buffer; no
\* read of the consumer is needed for it.
C39_RunEndsAfterCancel ==
    (ss # Nil /\ ss.ctxDone) ~> (ss.pc = "exited" /\ ss.done /\ ss.eventsClosed)

\* run has ended after a Cancel with the buffer full and not one event read;
\* Result has returned
C39_Witness ==
    /\ ss # Nil
    /\ ss.pc = "exited"
    /\ ss.read = 0
    /\ Len(ss.events) = EventBuffer
    /\ ss.delivered = EventBuffer
    /\ ss.gotResult
    /\ ~ss.closing

----------------------------------------------------------------------------
(* The Stream of providers/chatcompletion/stream.go, which implements      *)
(* step.AssistantStream: Next returns events, Result the message           *)

AssistantEvent(type, text, toolCall, reason) ==
    [Type |-> type, Delta |-> text, ToolCall |-> toolCall, Reason |-> reason]

EventTextStart == AssistantEvent("text_start", EmptyStr, Nil, "")
EventTextEnd == AssistantEvent("text_end", EmptyStr, Nil, "")
EventThinkingStart == AssistantEvent("thinking_start", EmptyStr, Nil, "")
EventThinkingEnd == AssistantEvent("thinking_end", EmptyStr, Nil, "")

\* NewStream of stream.go (lines 60-80); emittedToolStart is the set of the
\* keys of the map, every value of which is true
NewAssistantStream(handler) ==
    [pos |-> 0, done |-> FALSE, err |-> "", stage |-> stageWaiting,
     pendingEvents |-> << >>, textContent |-> << >>, toolCalls |-> << >>,
     emittedToolStart |-> {}, currentToolIdx |-> 0, hasCurrentTool |-> FALSE,
     stopReason |-> "", usage |-> 0, cached |-> 0, parts |-> << >>,
     rh |-> IF handler = Nil THEN NoOpReasoningHandler ELSE handler]

enqueueEvent(st, ev) == [st EXCEPT !.pendingEvents = Append(@, ev)]

dequeuePendingEvent(st) ==
    LET ev == Head(st.pendingEvents)
    IN [s |-> [st EXCEPT !.pendingEvents = Tail(@)], ev |-> ev,
        err |-> IF ev.Type = "done" THEN "EOF" ELSE ""]

emitToolCallEnd(st, idx) ==
    IF idx \notin DOMAIN st.toolCalls \/ idx \notin st.emittedToolStart
    THEN st
    ELSE LET acc == st.toolCalls[idx]
         IN enqueueEvent([st EXCEPT !.emittedToolStart = @ \ {idx}],
                         AssistantEvent("tool_call_end", EmptyStr,
                                        ToolCallPart(acc.id, acc.name, acc.argsStr), ""))

emitToolCallEnds(st) ==
    IF st.hasCurrentTool
    THEN [emitToolCallEnd(st, st.currentToolIdx) EXCEPT !.hasCurrentTool = FALSE]
    ELSE st

\* emitStageEnd of stream.go
emitStageEndEvents(st) ==
    CASE st.stage = stageThinking ->
           enqueueEvent(appendFlushed(st, FlushThinking(st.rh)), EventThinkingEnd)
      [] st.stage = stageText -> enqueueEvent(flushText(st), EventTextEnd)
      [] st.stage = stageTool -> emitToolCallEnds(st)
      [] OTHER -> st

\* the tool call start of one fragment, when the call has its id and its
\* name and no start was emitted for it
emitToolCallStart(st, idx) ==
    LET acc == st.toolCalls[idx]
    IN IF idx \notin st.emittedToolStart /\ acc.id # "" /\ acc.name # ""
       THEN LET st1 == [st EXCEPT !.emittedToolStart = @ \cup {idx},
                                  !.currentToolIdx = idx, !.hasCurrentTool = TRUE]
                st2 == IF st1.stage # stageTool
                       THEN [emitStageEndEvents(st1) EXCEPT !.stage = stageTool]
                       ELSE st1
            IN enqueueEvent(st2, AssistantEvent("tool_call_start", EmptyStr,
                                                ToolCallPart(acc.id, acc.name, EmptyStr), ""))
       ELSE st

\* one iteration of the loop of processChunk over delta.ToolCalls
processToolCallEvents(st, tc) ==
    LET st1 == IF st.hasCurrentTool /\ st.currentToolIdx # tc.index
               THEN emitToolCallEnd(st, st.currentToolIdx) ELSE st
        old == IF tc.index \in DOMAIN st1.toolCalls
               THEN st1.toolCalls[tc.index] ELSE emptyAccumulator
        acc == [id |-> IF tc.id # "" THEN tc.id ELSE old.id,
                name |-> IF tc.name # "" THEN tc.name ELSE old.name,
                argsStr |-> old.argsStr \o tc.args]
        st2 == [st1 EXCEPT !.toolCalls =
                    [i \in (DOMAIN @) \cup {tc.index} |->
                        IF i = tc.index THEN acc ELSE @[i]]]
        st3 == emitToolCallStart(st2, tc.index)
    IN IF tc.args # EmptyStr /\ tc.index \in st3.emittedToolStart
       THEN enqueueEvent(st3, AssistantEvent("tool_call_delta", tc.args, Nil, ""))
       ELSE st3

RECURSIVE processToolCallsEvents(_, _)
processToolCallsEvents(st, tcs) ==
    IF tcs = << >> THEN st
    ELSE processToolCallsEvents(processToolCallEvents(st, Head(tcs)), Tail(tcs))

\* the text branch of processChunk
processText(st, content) ==
    LET st1 == IF st.stage # stageText
               THEN enqueueEvent([emitStageEndEvents(st) EXCEPT !.stage = stageText],
                                 EventTextStart)
               ELSE st
    IN enqueueEvent([st1 EXCEPT !.textContent = Append(@, content)],
                    AssistantEvent("text_delta", content, Nil, ""))

\* the thinking branch of processChunk with the end of the stage before
processThinkingEndsStage(st, th) ==
    LET st0 == [st EXCEPT !.rh = th.h]
        st1 == IF st0.stage # stageThinking
               THEN enqueueEvent([emitStageEndEvents(st0) EXCEPT !.stage = stageThinking],
                                 EventThinkingStart)
               ELSE st0
    IN enqueueEvent(st1, AssistantEvent("thinking_delta", th.text, Nil, ""))

\* the thinking branch of processChunk: the stage is set to thinking, the
\* stage before is not ended
processThinking(st, th) ==
    LET st0 == [st EXCEPT !.rh = th.h]
        st1 == IF st0.stage # stageThinking
               THEN enqueueEvent([st0 EXCEPT !.stage = stageThinking], EventThinkingStart)
               ELSE st0
    IN enqueueEvent(st1, AssistantEvent("thinking_delta", th.text, Nil, ""))

\* processChunk of stream.go once the handler has answered th
processDeltaEvents(st, chunk, th) ==
    IF th.isThinking THEN processThinking(st, th)
    ELSE IF chunk.content # EmptyStr THEN processText(st, chunk.content)
    ELSE processToolCallsEvents(st, chunk.toolCalls)

\* processChunk of stream.go
processChunkEvents(st, chunk) ==
    IF ~chunk.choices
    THEN withUsage(st, chunk)
    ELSE LET st1 == [withUsage(st, chunk) EXCEPT
                         !.stopReason = IF chunk.finish # ""
                                        THEN mapFinishReason(chunk.finish) ELSE @]
         IN processDeltaEvents(st1, chunk, ExtractThinking(st1.rh, deltaToMap(chunk)))

\* finalize of stream.go up to the done event; `order` is the order this run
\* visits the keys of s.toolCalls in
finalizeEvents(st, order) ==
    LET st1 == emitStageEndEvents([st EXCEPT !.done = TRUE])
        st2 == [st1 EXCEPT !.parts = @ \o toolCallParts(st1.toolCalls, order),
                           !.stopReason = IF @ = "" THEN StopStop ELSE @]
    IN enqueueEvent(st2, AssistantEvent("done", EmptyStr, Nil, st2.stopReason))

\* Next of stream.go, up to and including one iteration of its loop; err =
\* "again" stands for the loop going round
AssistantStreamNext(st, ctxDone, order) ==
    IF Len(st.pendingEvents) > 0 THEN dequeuePendingEvent(st)
    ELSE IF st.done
         THEN [s |-> st, ev |-> AssistantEvent("done", EmptyStr, Nil, st.stopReason),
               err |-> "EOF"]
    ELSE IF st.err # ""
         THEN [s |-> st, ev |-> AssistantEvent("error", EmptyStr, Nil, ""), err |-> st.err]
    ELSE IF ctxDone
         THEN [s |-> [st EXCEPT !.err = "context canceled"],
               ev |-> AssistantEvent("error", EmptyStr, Nil, ""), err |-> "context canceled"]
    ELSE IF st.pos >= Len(wire)
         THEN IF wireErr
              THEN [s |-> [st EXCEPT !.err = "transport"],
                    ev |-> AssistantEvent("error", EmptyStr, Nil, ""), err |-> "transport"]
              ELSE dequeuePendingEvent(finalizeEvents(st, order))
    ELSE LET st1 == processChunkEvents([st EXCEPT !.pos = @ + 1], wire[st.pos + 1])
         IN IF Len(st1.pendingEvents) > 0 THEN dequeuePendingEvent(st1)
            ELSE [s |-> st1, ev |-> Nil, err |-> "again"]

\* Result of stream.go
AssistantStreamResult(st) ==
    IF ~st.done THEN [msg |-> Nil, err |-> "stream not finished"]
    ELSE IF st.err # "" THEN [msg |-> Nil, err |-> st.err]
    ELSE [msg |-> [AssistantMessage(st.parts, st.usage, st.stopReason)
                       EXCEPT !.Cached = st.cached],
          err |-> ""]

\* the chunks the event stream is run on
EventChunks ==
    { TextChunk, ReasoningChunk, ToolChunk(0, "search"), ToolChunk(1, "write"),
      ArgsChunk(0), FinishChunk(0) }

EventWires == UNION { [1..n -> EventChunks] : n \in 0..MaxChunks }

\* NewStream of stream.go has returned a Stream over the wire
InitEvents ==
    /\ wire \in EventWires
    /\ wireErr \in BOOLEAN
    /\ ctxCancelled = FALSE
    /\ \E handler \in {Nil, NewDefaultReasoningHandler(ModelName)} :
         s = NewAssistantStream(handler)
    /\ pc = "events"
    /\ rs = NewRun
    /\ ex = NoExec
    /\ completions = << >>
    /\ toolsCancelled = FALSE
    /\ workers = << >>
    /\ executed = {}
    /\ rets = {}
    /\ cancelAt = Nil
    /\ trace = << >>
    /\ rt = Nil
    /\ callers = << >>
    /\ ss = Nil

\* one call of Next(ctx) of stream.go; a call that loops reads one chunk per
\* step
EventsNext ==
    /\ pc = "events"
    /\ Len(SelectSeq(trace, LAMBDA e : e.v.err # "")) <= MaxNextAfterEnd
    /\ \E order \in Orders(DOMAIN s.toolCalls) :
         LET r == AssistantStreamNext(s, ctxCancelled, order)
         IN /\ s' = r.s
            /\ trace' = IF r.err = "again" THEN trace
                         ELSE Append(trace, [e |-> "next", by |-> "consumer",
                                             v |-> [ev |-> r.ev, err |-> r.err]])
    /\ UNCHANGED <<rt, ss, callers, wireVars, ctxVars, pc, rs, execVars>>

NextEvents ==
    \/ Cancel
    \/ EventsNext

SpecEvents == InitEvents /\ [][NextEvents]_vars

\* the types of the events Next has returned, in order
EventTypes == [i \in 1..Len(trace) |-> trace[i].v.ev.Type]

\* the text of the text deltas Next has returned
RECURSIVE DeltaText(_)
DeltaText(tr) ==
    IF tr = << >> THEN EmptyStr
    ELSE (IF Head(tr).v.ev.Type = "text_delta" THEN Head(tr).v.ev.Delta ELSE EmptyStr)
         \o DeltaText(Tail(tr))

\* the text of the text parts of a message
RECURSIVE PartsText(_)
PartsText(parts) ==
    IF parts = << >> THEN EmptyStr
    ELSE (IF Head(parts).type = "text" THEN Head(parts).Text ELSE EmptyStr)
         \o PartsText(Tail(parts))

\* Next has returned the done event
SawDone == \E i \in 1..Len(trace) : trace[i].v.ev.Type = "done"

\* C40: once the event stream has ended normally, every text_start was
\* followed by a text_end before the next start of a block and before done,
\* and the text of the text deltas is the text of the text parts of the
\* message Result returns.
C40_TextBlocksClosed ==
    (pc = "events" /\ SawDone) =>
        /\ \A i \in 1..Len(trace) : EventTypes[i] = "text_start" =>
               \E j \in (i + 1)..Len(trace) :
                   /\ EventTypes[j] = "text_end"
                   /\ \A k \in (i + 1)..(j - 1) : EventTypes[k] = "text_delta"
        /\ AssistantStreamResult(s).err = ""
        /\ PartsText(AssistantStreamResult(s).msg.Parts) = DeltaText(trace)

====
